---------------------------- MODULE Spec2Model ----------------------------
(***************************************************************************)
(* Browser automation: the safety policy (utils/safety_policy.py), the     *)
(* safety-gated action dispatcher (utils/actions.py), the general run      *)
(* (main.py), the flight-booking workflow (utils/flight_booking_workflow)  *)
(* and the chat front end that starts workers (app.py).                    *)
(*                                                                         *)
(* Strings the policy matches on are sequences of one-character strings,   *)
(* so that lower(), substring search and wildcard matching are computed.   *)
(***************************************************************************)
EXTENDS Integers, Sequences, FiniteSets, TLC

(***************************************************************************)
(* Bounds of the model.                                                    *)
(***************************************************************************)
\* most violations the policy-level specification logs before it stops checking
MaxViolations == 1
\* largest scope.max_actions a session scope is drawn with
MaxActionsBound == 2
\* longest plan of a run made with a caller's budget of actions
MaxBudgetSteps == 1
\* largest scope.max_tokens a session scope is drawn with
MaxTokensBound == 2
\* largest scope.timeout_minutes, and the minutes the clock may advance
MaxMinutes == 1

(***************************************************************************)
(* Configured lists of utils/safety_policy.py.                             *)
(***************************************************************************)
\* safety_policy.py BLOCKED_DOMAINS, in list order; each pattern a sequence of characters
BLOCKED_DOMAINS ==
  << <<"p","a","y","p","a","l",".","c","o","m">>,
     <<"*",".","p","a","y","p","a","l",".","c","o","m">>,
     <<"s","t","r","i","p","e",".","c","o","m">>,
     <<"*",".","s","t","r","i","p","e",".","c","o","m">>,
     <<"r","a","z","o","r","p","a","y",".","c","o","m">>,
     <<"*",".","r","a","z","o","r","p","a","y",".","c","o","m">>,
     <<"p","a","y","t","m",".","c","o","m">>,
     <<"*",".","p","a","y","t","m",".","c","o","m">>,
     <<"c","h","e","c","k","o","u","t",".","s","t","r","i","p","e",".","c","o","m">>,
     <<"*","b","a","n","k","*">>,
     <<"*","b","a","n","k","i","n","g","*">>,
     <<"*",".","i","c","i","c","i","b","a","n","k",".","c","o","m">>,
     <<"*",".","h","d","f","c","b","a","n","k",".","c","o","m">>,
     <<"*",".","s","b","i",".","c","o",".","i","n">>,
     <<"*",".","c","h","a","s","e",".","c","o","m">>,
     <<"*",".","w","e","l","l","s","f","a","r","g","o",".","c","o","m">>,
     <<"*",".","b","a","n","k","o","f","a","m","e","r","i","c","a",".","c","o","m">>,
     <<"a","c","c","o","u","n","t",".","g","o","o","g","l","e",".","c","o","m","/","d","e","l","e","t","e">>,
     <<"m","y","a","c","c","o","u","n","t",".","g","o","o","g","l","e",".","c","o","m","/","d","e","l","e","t","e">>,
     <<"*",".","b","i","n","a","n","c","e",".","c","o","m">>,
     <<"*",".","c","o","i","n","b","a","s","e",".","c","o","m">>,
     <<"*",".","k","r","a","k","e","n",".","c","o","m">> >>

\* safety_policy.py BLOCKED_KEYWORDS, in list order
BLOCKED_KEYWORDS ==
  << <<"p","a","y"," ","n","o","w">>,
     <<"m","a","k","e"," ","p","a","y","m","e","n","t">>,
     <<"c","h","e","c","k","o","u","t">>,
     <<"p","l","a","c","e"," ","o","r","d","e","r">>,
     <<"c","o","n","f","i","r","m"," ","p","u","r","c","h","a","s","e">>,
     <<"b","u","y"," ","n","o","w">>,
     <<"a","d","d"," ","t","o"," ","c","a","r","t"," ","a","n","d"," ","c","h","e","c","k","o","u","t">>,
     <<"e","n","t","e","r"," ","c","a","r","d">>,
     <<"c","r","e","d","i","t"," ","c","a","r","d">>,
     <<"d","e","b","i","t"," ","c","a","r","d">>,
     <<"c","v","v">>,
     <<"d","e","l","e","t","e"," ","a","c","c","o","u","n","t">>,
     <<"d","e","l","e","t","e"," ","a","l","l">>,
     <<"r","e","m","o","v","e"," ","p","e","r","m","a","n","e","n","t","l","y">>,
     <<"c","a","n","c","e","l"," ","s","u","b","s","c","r","i","p","t","i","o","n">>,
     <<"u","n","s","u","b","s","c","r","i","b","e"," ","a","l","l">>,
     <<"f","a","c","t","o","r","y"," ","r","e","s","e","t">>,
     <<"f","o","r","m","a","t"," ","d","r","i","v","e">>,
     <<"e","n","t","e","r"," ","p","a","s","s","w","o","r","d">>,
     <<"c","h","a","n","g","e"," ","p","a","s","s","w","o","r","d">>,
     <<"r","e","s","e","t"," ","p","a","s","s","w","o","r","d">>,
     <<"e","n","t","e","r"," ","o","t","p">>,
     <<"e","n","t","e","r"," ","p","i","n">>,
     <<"s","o","c","i","a","l"," ","s","e","c","u","r","i","t","y">>,
     <<"t","r","a","n","s","f","e","r"," ","m","o","n","e","y">>,
     <<"s","e","n","d"," ","m","o","n","e","y">>,
     <<"w","i","t","h","d","r","a","w">>,
     <<"b","i","t","c","o","i","n">>,
     <<"c","r","y","p","t","o">>,
     <<"w","a","l","l","e","t"," ","a","d","d","r","e","s","s">> >>

\* safety_policy.py BLOCKED_URL_PATTERNS, in list order
BLOCKED_URL_PATTERNS ==
  << <<"*","c","h","e","c","k","o","u","t","*">>,
     <<"*","p","a","y","m","e","n","t","*">>,
     <<"*","p","a","y","*">>,
     <<"*","c","a","r","t","/","c","h","e","c","k","o","u","t","*">>,
     <<"*","o","r","d","e","r","/","c","o","n","f","i","r","m","*">>,
     <<"*","d","e","l","e","t","e","*","a","c","c","o","u","n","t","*">>,
     <<"*","c","l","o","s","e","*","a","c","c","o","u","n","t","*">> >>


(***************************************************************************)
(* String helpers.                                                         *)
(***************************************************************************)
UpperChars == <<"A","B","C","D","E","F","G","H","I","J","K","L","M","N","O","P","Q","R","S","T","U","V","W","X","Y","Z">>
LowerChars == <<"a","b","c","d","e","f","g","h","i","j","k","l","m","n","o","p","q","r","s","t","u","v","w","x","y","z">>

\* str.lower() on one character
LowerChar(c) ==
  IF \E i \in 1..26 : UpperChars[i] = c
  THEN LowerChars[CHOOSE i \in 1..26 : UpperChars[i] = c]
  ELSE c

\* str.lower()
Lower(s) == [i \in 1..Len(s) |-> LowerChar(s[i])]

\* `sub in text` of Python: sub occurs as a contiguous run of text
Contains(text, sub) ==
  \E i \in 1..(Len(text) - Len(sub) + 1) : SubSeq(text, i, i + Len(sub) - 1) = sub

\* Whole-string wildcard match from text[i..] against pat[j..]: "*" in pat
\* stands for any run of characters, every other character for itself (the
\* configured patterns hold no "?" and no "[").
RECURSIVE GlobFrom(_, _, _, _)
GlobFrom(text, pat, i, j) ==
  IF j > Len(pat) THEN i > Len(text)
  ELSE IF pat[j] = "*"
       THEN IF j = Len(pat) THEN TRUE
            ELSE \E k \in i..(Len(text) + 1) : GlobFrom(text, pat, k, j + 1)
       ELSE i <= Len(text) /\ text[i] = pat[j] /\ GlobFrom(text, pat, i + 1, j + 1)

\* a pattern with each run of "*" written as one "*" (it matches the same texts)
RECURSIVE CollapseStars(_)
CollapseStars(pat) ==
  IF Len(pat) <= 1 THEN pat
  ELSE IF pat[1] = "*" /\ pat[2] = "*" THEN CollapseStars(Tail(pat))
  ELSE <<pat[1]>> \o CollapseStars(Tail(pat))

\* fnmatch.fnmatch(text, pattern) on a POSIX build (normcase is the identity)
fnmatch(text, pattern) == GlobFrom(text, CollapseStars(pattern), 1, 1)

\* SafetyPolicy._match_pattern: "." is escaped, "*" becomes ".*", and
\* re.search looks for the regex anywhere in the text; on one-line text that
\* is the whole-string match of the pattern with a "*" put on either side.
_match_pattern(text, pattern) ==
  GlobFrom(text, CollapseStars(<<"*">> \o pattern \o <<"*">>), 1, 1)

(***************************************************************************)
(* State.                                                                  *)
(***************************************************************************)
VARIABLES
  scope,            \* SafetyPolicy.scope: the SessionScope of the session
  action_count,     \* SafetyPolicy.action_count
  token_count,      \* SafetyPolicy.token_count
  elapsed,          \* whole minutes since SafetyPolicy.start_time
  violations,       \* SafetyPolicy.violations, oldest first
  record_calls,     \* how many times record_action has been called (history)
  emergency_stop,   \* safety_policy._EMERGENCY_STOP
  stop_calls,       \* the calls made on the emergency-stop flag, oldest first (history)
  _safety_policy,   \* actions._safety_policy: "None" or "installed"
  workflow,         \* which entry point runs: "general" (main.run) or "flight"
  ask_user_fn,      \* FlightBookingWorkflow.ask_user_fn: "None" or "chat"
  pc,               \* where the run is in its code
  plan_len,         \* len(plan.steps)
  step_mode,        \* main.run: step_mode
  step,             \* 1-based index of the plan step the for loop is at
  phase,            \* flight workflow: the phase whose turn loop runs
  iteration,        \* the turn loop's index (iteration / turn in the source)
  pending,          \* function calls of this turn not yet executed
  results,          \* execute_function_calls: results of this turn so far
  contents,         \* main.run: the end of the conversation sent to the model, from
                    \* its last model turn on, or the prompt alone
  browser,          \* "none", "driver" (playwright only), "open", "closed"
  page_url,         \* page.url
  page_closed,      \* page.is_closed()
  model_calls,      \* generate_content calls made by the current turn loop (history)
  allowed_dispatched, \* actions check_safety allowed and execute_action went on with (history)
  unchecked_ops,    \* the model actions performed on the browser with no
                    \* check_safety call made for them (history)
  loop_exit,        \* why the turn loop just left ended (history)
  step_log,         \* per step gone through: "completed", "failed", "unvalidated"
                    \* (page closed at validation) or "skipped" (history)
  automation_status, \* app.automation_status: its state and waiting_for_user
  chat_to_workflow, \* app.chat_to_workflow, oldest first: the request each message came with
  workflow_to_chat, \* app.workflow_to_chat, oldest first
  handler,          \* per chat request: where its handler thread is
  response,         \* per chat request: what the handler answers
  worker,           \* per chat request: the worker thread it started, if any
  ask_log,          \* per call of _ask_user_via_chat so far: the worker that asked, the
                    \* requests submitted while its question was out, and how the
                    \* call ended: 0 not yet, -1 by queue.Empty, else the request
                    \* whose message it returned (history)
  model_response,   \* what the model call of the planner or of the validator gave:
                    \* an exception, or the text of the response
  returned          \* what TaskPlanner.plan or VisualValidator.validate then did:
                    \* the value it returned or the exception it raised

policy_vars == <<scope, action_count, token_count, elapsed, violations, record_calls>>
stop_vars == <<emergency_stop, stop_calls>>
control_vars_but_pc == <<workflow, ask_user_fn, plan_len, step_mode, step, phase, iteration, pending, results, contents>>
control_vars == <<pc, control_vars_but_pc>>
browser_vars == <<browser, page_url, page_closed>>
history_vars == <<model_calls, allowed_dispatched, unchecked_ops, loop_exit, step_log>>
run_vars == <<_safety_policy, control_vars, browser_vars, history_vars>>

app_vars == <<automation_status, chat_to_workflow, workflow_to_chat, handler, response, worker, ask_log>>

parse_vars == <<model_response, returned>>

vars == <<policy_vars, stop_vars, run_vars, app_vars, parse_vars>>

(***************************************************************************)
(* Inputs.                                                                 *)
(***************************************************************************)
\* the URLs a check is made with
UrlIds ==
  {"u_empty", "u_blank", "u_google", "u_flights", "u_paypal", "u_bank", "u_checkout", "u_dot"}

\* the actions the model returns; ActionDesc is f"{fname} {str(args)}"
ActionIds == {"a_click", "a_wait", "a_nav_google", "a_nav_paypal", "a_nav_checkout",
            "a_type_card", "a_unknown"}

\* the allow-lists a SessionScope is drawn with: none (unrestricted) or google.com
ALLOW_LISTS == { <<>>, << <<"g","o","o","g","l","e",".","c","o","m">> >> }

\* SessionScope(...): the scopes a session is created with
SCOPES ==
  [ allowed_domains : ALLOW_LISTS,
    max_actions     : 1..MaxActionsBound,
    max_tokens      : {MaxTokensBound},
    timeout_minutes : {MaxMinutes} ]

\* the text of each URL of the model
UrlText(u) ==
  CASE u = "u_empty" -> <<>>   \* (empty)
    [] u = "u_blank" -> <<"a","b","o","u","t",":","b","l","a","n","k">>   \* about:blank
    [] u = "u_google" -> <<"h","t","t","p","s",":","/","/","w","w","w",".","g","o","o","g","l","e",".","c","o","m">>   \* https://www.google.com
    [] u = "u_paypal" -> <<"h","t","t","p","s",":","/","/","w","w","w",".","P","a","y","P","a","l",".","c","o","m","/","s","i","g","n","i","n">>   \* https://www.PayPal.com/signin
    [] u = "u_bank" -> <<"h","t","t","p","s",":","/","/","m","y","b","a","n","k",".","i","n">>   \* https://mybank.in
    [] u = "u_checkout" -> <<"h","t","t","p","s",":","/","/","s","h","o","p",".","e","x","a","m","p","l","e",".","c","o","m","/","c","h","e","c","k","o","u","t">>   \* https://shop.example.com/checkout
    [] u = "u_dot" -> <<"h","t","t","p","s",":","/","/","s","t","r","i","p","e","x","c","o","m",".","i","o">>   \* https://stripexcom.io
    [] u = "u_flights" -> <<"h","t","t","p","s",":","/","/","w","w","w",".","g","o","o","g","l","e",".","c","o","m","/","t","r","a","v","e","l","/","f","l","i","g","h","t","s">>   \* https://www.google.com/travel/flights

\* action_desc = f"{fname} {str(args)}" of each action of the model (actions.py _check_safety)
ActionDesc(a) ==
  CASE a = "a_click" -> <<"c","l","i","c","k","_","a","t"," ","{","'","x","'",":"," ","5","0","0",","," ","'","y","'",":"," ","5","0","0","}">>   \* click_at {'x': 500, 'y': 500}
    [] a = "a_wait" -> <<"w","a","i","t"," ","{","'","d","u","r","a","t","i","o","n","'",":"," ","1","}">>   \* wait {'duration': 1}
    [] a = "a_nav_google" -> <<"n","a","v","i","g","a","t","e"," ","{","'","u","r","l","'",":"," ","'","h","t","t","p","s",":","/","/","w","w","w",".","g","o","o","g","l","e",".","c","o","m","'","}">>   \* navigate {'url': 'https://www.google.com'}
    [] a = "a_nav_paypal" -> <<"n","a","v","i","g","a","t","e"," ","{","'","u","r","l","'",":"," ","'","h","t","t","p","s",":","/","/","w","w","w",".","P","a","y","P","a","l",".","c","o","m","/","s","i","g","n","i","n","'","}">>   \* navigate {'url': 'https://www.PayPal.com/signin'}
    [] a = "a_nav_checkout" -> <<"n","a","v","i","g","a","t","e"," ","{","'","u","r","l","'",":"," ","'","h","t","t","p","s",":","/","/","s","h","o","p",".","e","x","a","m","p","l","e",".","c","o","m","/","c","h","e","c","k","o","u","t","'","}">>   \* navigate {'url': 'https://shop.example.com/checkout'}
    [] a = "a_type_card" -> <<"t","y","p","e","_","t","e","x","t"," ","{","'","t","e","x","t","'",":"," ","'","E","n","t","e","r"," ","C","a","r","d"," ","n","u","m","b","e","r","'","}">>   \* type_text {'text': 'Enter Card number'}
    [] a = "a_unknown" -> <<"f","r","o","b","n","i","c","a","t","e"," ","{","}">>   \* frobnicate {}

(***************************************************************************)
(* SafetyPolicy (utils/safety_policy.py).  A reason is <<text, detail>>:   *)
(* the fixed text of the message and the value formatted into it.          *)
(***************************************************************************)
NoReason == <<"", <<>>>>

\* the first index of a sequence of booleans that holds TRUE (the loop's first hit)
FirstTrue(bs) == CHOOSE i \in 1..Len(bs) : bs[i] /\ \A j \in 1..(i - 1) : ~bs[j]

\* _is_domain_blocked without url.lower(): the URL is matched as written
_is_domain_blocked_case_sensitive(url) ==
  IF url = <<>> THEN [blocked |-> FALSE, reason |-> NoReason]
  ELSE
    LET D == [i \in 1..Len(BLOCKED_DOMAINS) |-> _match_pattern(url, BLOCKED_DOMAINS[i])]
        U == [i \in 1..Len(BLOCKED_URL_PATTERNS) |-> fnmatch(url, BLOCKED_URL_PATTERNS[i])]
    IN  IF \E i \in 1..Len(BLOCKED_DOMAINS) : D[i]
        THEN [blocked |-> TRUE,
              reason |-> <<"Domain matches blocked pattern", BLOCKED_DOMAINS[FirstTrue(D)]>>]
        ELSE IF \E i \in 1..Len(BLOCKED_URL_PATTERNS) : U[i]
        THEN [blocked |-> TRUE,
              reason |-> <<"URL matches blocked pattern", BLOCKED_URL_PATTERNS[FirstTrue(U)]>>]
        ELSE [blocked |-> FALSE, reason |-> NoReason]

_is_domain_blocked(url) ==
  IF url = <<>> THEN [blocked |-> FALSE, reason |-> NoReason]
  ELSE
    LET url_lower == Lower(url)
        D == [i \in 1..Len(BLOCKED_DOMAINS) |-> _match_pattern(url_lower, BLOCKED_DOMAINS[i])]
        U == [i \in 1..Len(BLOCKED_URL_PATTERNS) |-> fnmatch(url_lower, BLOCKED_URL_PATTERNS[i])]
    IN  IF \E i \in 1..Len(BLOCKED_DOMAINS) : D[i]
        THEN [blocked |-> TRUE,
              reason |-> <<"Domain matches blocked pattern",
                           BLOCKED_DOMAINS[FirstTrue(D)]>>]
        ELSE IF \E i \in 1..Len(BLOCKED_URL_PATTERNS) : U[i]
        THEN [blocked |-> TRUE,
              reason |-> <<"URL matches blocked pattern",
                           BLOCKED_URL_PATTERNS[FirstTrue(U)]>>]
        ELSE [blocked |-> FALSE, reason |-> NoReason]

\* _is_action_blocked without .lower() on the combined text
_is_action_blocked_case_sensitive(action, target_text) ==
  LET combined == action \o <<" ">> \o target_text
      K == [i \in 1..Len(BLOCKED_KEYWORDS) |-> Contains(combined, BLOCKED_KEYWORDS[i])]
  IN  IF \E i \in 1..Len(BLOCKED_KEYWORDS) : K[i]
      THEN [blocked |-> TRUE,
            reason |-> <<"Action contains blocked keyword", BLOCKED_KEYWORDS[FirstTrue(K)]>>]
      ELSE [blocked |-> FALSE, reason |-> NoReason]

_is_action_blocked(action, target_text) ==
  LET combined == Lower(action \o <<" ">> \o target_text)
      K == [i \in 1..Len(BLOCKED_KEYWORDS) |-> Contains(combined, Lower(BLOCKED_KEYWORDS[i]))]
  IN  IF \E i \in 1..Len(BLOCKED_KEYWORDS) : K[i]
      THEN [blocked |-> TRUE,
            reason |-> <<"Action contains blocked keyword",
                         BLOCKED_KEYWORDS[FirstTrue(K)]>>]
      ELSE [blocked |-> FALSE, reason |-> NoReason]

\* _is_in_scope, with self.scope.allowed_domains as a parameter
_is_in_scope(url, allowed_domains) ==
  IF allowed_domains = <<>> THEN [in_scope |-> TRUE, reason |-> NoReason]
  ELSE
    LET url_lower == Lower(url)
    IN  IF \E i \in 1..Len(allowed_domains) :
             _match_pattern(url_lower, <<"*">> \o allowed_domains[i] \o <<"*">>)
        THEN [in_scope |-> TRUE, reason |-> NoReason]
        ELSE [in_scope |-> FALSE,
              reason |-> <<"URL not in allowed scope", allowed_domains>>]

\* _check_limits with the action count compared by > instead of >=
\* _check_limits without the limit on actions
_check_limits_no_action_limit ==
  IF token_count >= scope.max_tokens
  THEN [within |-> FALSE,
        reason |-> <<"Max tokens exceeded", <<token_count, scope.max_tokens>>>>]
  ELSE IF elapsed >= scope.timeout_minutes
  THEN [within |-> FALSE,
        reason |-> <<"Session timeout", <<elapsed, scope.timeout_minutes>>>>]
  ELSE [within |-> TRUE, reason |-> NoReason]

_check_limits_off_by_one ==
  IF action_count > scope.max_actions
  THEN [within |-> FALSE,
        reason |-> <<"Max actions exceeded", <<action_count, scope.max_actions>>>>]
  ELSE IF token_count >= scope.max_tokens
  THEN [within |-> FALSE,
        reason |-> <<"Max tokens exceeded", <<token_count, scope.max_tokens>>>>]
  ELSE IF elapsed >= scope.timeout_minutes
  THEN [within |-> FALSE,
        reason |-> <<"Session timeout", <<elapsed, scope.timeout_minutes>>>>]
  ELSE [within |-> TRUE, reason |-> NoReason]

_check_limits ==
  IF action_count >= scope.max_actions
  THEN [within |-> FALSE,
        reason |-> <<"Max actions exceeded", <<action_count, scope.max_actions>>>>]
  ELSE IF token_count >= scope.max_tokens
  THEN [within |-> FALSE,
        reason |-> <<"Max tokens exceeded", <<token_count, scope.max_tokens>>>>]
  ELSE IF elapsed >= scope.timeout_minutes
  THEN [within |-> FALSE,
        reason |-> <<"Session timeout", <<elapsed, scope.timeout_minutes>>>>]
  ELSE [within |-> TRUE, reason |-> NoReason]

\* The three string rules on the inputs of the model, computed once each:
\* _is_domain_blocked per URL, _is_action_blocked per action description
\* (target_text at its default ""), _is_in_scope per allow-list and URL.
DomainVerdict == [u \in UrlIds |-> _is_domain_blocked(UrlText(u))]
KeywordVerdict == [a \in ActionIds |-> _is_action_blocked(ActionDesc(a), <<>>)]
ScopeVerdict ==
  [al \in ALLOW_LISTS |-> [u \in UrlIds |-> _is_in_scope(UrlText(u), al)]]

\* check_safety with the keyword rule tried before the domain rule
check_safety_keyword_first(a, u) ==
  LET d == DomainVerdict[u]
      k == KeywordVerdict[a]
      s == IF UrlText(u) # <<>> THEN ScopeVerdict[scope.allowed_domains][u]
                                ELSE [in_scope |-> TRUE, reason |-> NoReason]
      l == _check_limits
  IN  IF k.blocked
      THEN [allowed |-> FALSE, reason |-> k.reason, violation_type |-> "blocked_keyword"]
      ELSE IF d.blocked
      THEN [allowed |-> FALSE, reason |-> d.reason, violation_type |-> "blocked_domain"]
      ELSE IF ~s.in_scope
      THEN [allowed |-> FALSE, reason |-> s.reason, violation_type |-> "scope_exceeded"]
      ELSE IF ~l.within
      THEN [allowed |-> FALSE, reason |-> l.reason, violation_type |-> "limit_exceeded"]
      ELSE [allowed |-> TRUE, reason |-> NoReason, violation_type |-> ""]

\* check_safety(ActionDesc(a), UrlText(u)): what it returns and the violation
\* type it logs ("" when it logs none).
check_safety(a, u) ==
  LET d == DomainVerdict[u]
      k == KeywordVerdict[a]
      s == IF UrlText(u) # <<>> THEN ScopeVerdict[scope.allowed_domains][u]
                                ELSE [in_scope |-> TRUE, reason |-> NoReason]
      l == _check_limits
  IN  IF d.blocked
      THEN [allowed |-> FALSE, reason |-> d.reason, violation_type |-> "blocked_domain"]
      ELSE IF k.blocked
      THEN [allowed |-> FALSE, reason |-> k.reason, violation_type |-> "blocked_keyword"]
      ELSE IF ~s.in_scope
      THEN [allowed |-> FALSE, reason |-> s.reason, violation_type |-> "scope_exceeded"]
      ELSE IF ~l.within
      THEN [allowed |-> FALSE, reason |-> l.reason, violation_type |-> "limit_exceeded"]
      ELSE [allowed |-> TRUE, reason |-> NoReason, violation_type |-> ""]

\* _log_violation: the entry appended to self.violations (the timestamp and
\* the copy written to safety_log.json, whose failures are swallowed, are not
\* part of the state)
_log_violation(violation_type, a, u, details) ==
  Append(violations, [violation_type |-> violation_type, action |-> a,
                      url |-> u, details |-> details])

\* self.violations after check_safety(ActionDesc(a), UrlText(u))
ViolationsAfterCheck(a, u) ==
  LET r == check_safety(a, u)
  IN  IF r.allowed THEN violations
      ELSE _log_violation(r.violation_type, a, u, r.reason)

(***************************************************************************)
(* The policy on its own: a caller checks, records and lets time pass.     *)
(***************************************************************************)
\* most chat requests the server gets in the model
MaxRequests == 3

ReqIds == 1..MaxRequests

\* the module globals of app.py at import time
NoApp ==
  /\ automation_status = [state |-> "idle", waiting_for_user |-> FALSE]
  /\ chat_to_workflow = <<>>
  /\ workflow_to_chat = <<>>
  /\ handler = [r \in ReqIds |-> "new"]
  /\ response = [r \in ReqIds |-> "none"]
  /\ worker = [r \in ReqIds |-> [pc |-> "none", kind |-> "none", asks |-> 0, ask_id |-> 0]]
  /\ ask_log = <<>>
  /\ model_response = [kind |-> "none"]
  /\ returned = [tag |-> "none"]

\* no run is in progress: the module globals of actions.py at import time
NoRun ==
  /\ _safety_policy = "None"
  /\ workflow = "none"
  /\ ask_user_fn = "None"
  /\ pc = "idle"
  /\ plan_len = 0
  /\ step_mode = FALSE
  /\ step = 0
  /\ phase = "none"
  /\ iteration = 0
  /\ pending = <<>>
  /\ results = <<>>
  /\ contents = <<>>
  /\ browser = "none"
  /\ page_url = "u_empty"
  /\ page_closed = FALSE
  /\ model_calls = 0
  /\ allowed_dispatched = 0
  /\ unchecked_ops = {}
  /\ loop_exit = "none"
  /\ step_log = <<>>

\* SafetyPolicy.__init__(scope), with the emergency-stop flag at its module value
PolicyInit ==
  /\ scope \in SCOPES
  /\ action_count = 0
  /\ token_count = 0
  /\ elapsed = 0
  /\ violations = <<>>
  /\ record_calls = 0
  /\ emergency_stop = FALSE
  /\ stop_calls = <<>>
  /\ NoRun
  /\ NoApp

\* SafetyPolicy.check_safety(action, url)
CheckSafety(a, u) ==
  /\ Len(ViolationsAfterCheck(a, u)) <= MaxViolations
  /\ violations' = ViolationsAfterCheck(a, u)
  /\ UNCHANGED <<scope, action_count, token_count, elapsed, record_calls, stop_vars, app_vars, parse_vars, run_vars>>

\* SafetyPolicy.record_action(tokens_used): the two counters after the call
record_action(tokens_used) ==
  [action_count |-> action_count + 1, token_count |-> token_count + tokens_used]

RecordAction(tokens_used) ==
  /\ action_count < MaxActionsBound
  /\ token_count + tokens_used <= MaxTokensBound
  /\ action_count' = record_action(tokens_used).action_count
  /\ token_count' = record_action(tokens_used).token_count
  /\ record_calls' = record_calls + 1
  /\ UNCHANGED <<scope, elapsed, violations, stop_vars, app_vars, parse_vars, run_vars>>

\* a minute of the session passes
Tick ==
  /\ elapsed < MaxMinutes
  /\ elapsed' = elapsed + 1
  /\ UNCHANGED <<scope, action_count, token_count, violations, record_calls, stop_vars, app_vars, parse_vars, run_vars>>

\* the calls the policy-level specification makes: one action description
\* for each way the keyword rule can go (no keyword, a keyword, a keyword
\* beside a blocked URL), and every URL but the blank page
PolicyActionIds == {"a_click", "a_type_card", "a_nav_checkout"}
PolicyUrlIds == UrlIds \ {"u_blank", "u_flights"}

PolicyNext ==
  \/ \E a \in PolicyActionIds, u \in PolicyUrlIds : CheckSafety(a, u)
  \/ \E t \in 0..1 : RecordAction(t)
  \/ Tick

SpecPolicy == PolicyInit /\ [][PolicyNext]_vars

(***************************************************************************)
(* The emergency-stop flag on its own: a foreground and a background       *)
(* thread call the three module functions in any order.  Each call is one  *)
(* step: a store to, or a load of, one module global.                      *)
(***************************************************************************)
\* most calls on the emergency-stop flag the flag-level specification makes
MaxStopCalls == 5

THREADS == {"foreground", "background"}

\* trigger_emergency_stop written as a toggle of the flag
trigger_emergency_stop_toggle == ~emergency_stop

\* trigger_emergency_stop(): the flag after the call
trigger_emergency_stop == TRUE

\* reset_emergency_stop(): the flag after the call
reset_emergency_stop == FALSE

\* is_emergency_stopped(): the value returned
is_emergency_stopped == emergency_stop

StopInit ==
  /\ scope \in {s \in SCOPES : s.max_actions = 1 /\ s.allowed_domains = <<>>}
  /\ action_count = 0
  /\ token_count = 0
  /\ elapsed = 0
  /\ violations = <<>>
  /\ record_calls = 0
  /\ emergency_stop \in BOOLEAN
  /\ stop_calls = <<>>
  /\ NoRun
  /\ NoApp

TriggerEmergencyStop(t) ==
  /\ Len(stop_calls) < MaxStopCalls
  /\ emergency_stop' = trigger_emergency_stop
  /\ stop_calls' = Append(stop_calls, [op |-> "trigger", thread |-> t, result |-> TRUE])
  /\ UNCHANGED <<policy_vars, run_vars, app_vars, parse_vars>>

ResetEmergencyStop(t) ==
  /\ Len(stop_calls) < MaxStopCalls
  /\ emergency_stop' = reset_emergency_stop
  /\ stop_calls' = Append(stop_calls, [op |-> "reset", thread |-> t, result |-> FALSE])
  /\ UNCHANGED <<policy_vars, run_vars, app_vars, parse_vars>>

IsEmergencyStopped(t) ==
  /\ Len(stop_calls) < MaxStopCalls
  /\ stop_calls' = Append(stop_calls, [op |-> "is_stopped", thread |-> t,
                                        result |-> is_emergency_stopped])
  /\ UNCHANGED <<emergency_stop, policy_vars, run_vars, app_vars, parse_vars>>

StopNext ==
  \/ \E t \in THREADS : TriggerEmergencyStop(t)
  \/ \E t \in THREADS : ResetEmergencyStop(t)
  \/ \E t \in THREADS : IsEmergencyStopped(t)

SpecStop == StopInit /\ [][StopNext]_vars

(***************************************************************************)
(* A run.  main.run (the general run) and FlightBookingWorkflow.execute    *)
(* share execute_function_calls, execute_action and the module global      *)
(* actions._safety_policy.                                                 *)
(***************************************************************************)
\* most steps a plan has in the model
MaxSteps == 2

\* main.run: for iteration in range(5)
STEP_TURNS == 5

\* SessionScope defaults, as main.run builds them when no scope is passed
DEFAULT_MAX_ACTIONS == 100
DEFAULT_MAX_TOKENS == 200000
DEFAULT_TIMEOUT_MINUTES == 30

DefaultScope ==
  [allowed_domains |-> <<>>, max_actions |-> DEFAULT_MAX_ACTIONS,
   max_tokens |-> DEFAULT_MAX_TOKENS, timeout_minutes |-> DEFAULT_TIMEOUT_MINUTES]

\* utils/__init__.py: is_stopped = is_emergency_stopped, written as a check
\* that never sees the flag
is_stopped_blind == FALSE

\* utils/__init__.py: is_stopped = is_emergency_stopped
is_stopped == is_emergency_stopped

\* utils/__init__.py: reset_stop = reset_emergency_stop
reset_stop == reset_emergency_stop

\* candidate.content.parts: the function calls a model response carries
FunctionCallBatches ==
  { <<>>, <<"a_click">>, <<"a_type_card", "a_nav_google">>, <<"a_unknown">> }

\* response.usage_metadata as ModelCall takes it: -1 when absent, else its
\* candidates_token_count.  The runs explored are those of a model API that
\* reports usage on every response.
UsageOptions == {1}

\* args.get("url", ""): the URL a navigate call names, "u_empty" for none
TargetUrl(a) ==
  CASE a = "a_nav_google"   -> "u_google"
    [] a = "a_nav_paypal"   -> "u_paypal"
    [] a = "a_nav_checkout" -> "u_checkout"
    [] OTHER                -> "u_empty"

\* _check_safety: target_url or current_url
CheckedUrl(a) == IF TargetUrl(a) # "u_empty" THEN TargetUrl(a) ELSE page_url

\* _execute_action_internal: the names it has a branch for
KnownAction(a) == a # "a_unknown"

\* _execute_action_internal: "wait" sleeps and touches no page
TouchesPage(a) == KnownAction(a) /\ a # "a_wait"

\* main.run, lines 199-201: the first turn of a step, the prompt with the
\* screenshot
PromptTurn == [role |-> "user", parts |-> <<"prompt">>]

\* main.run, line 232: candidate.content, with the function calls it holds
ModelTurn(calls) == [role |-> "model", parts |-> calls]

\* main.run, lines 260-274 and get_function_responses, lines 419-435: one
\* FunctionResponse per result, in the order of the results
ResponsesTurn(rs) == [role |-> "user", parts |-> [i \in 1..Len(rs) |-> rs[i].name]]

\* main.run, lines 304-305 and FlightBookingWorkflow.execute, lines 58-59:
\* the finally block. _cleanup swallows an exception of browser.close(), and
\* playwright.stop() is then not reached.
Finally(close_ok, raised) ==
  /\ browser' = IF close_ok THEN "closed" ELSE "driver"
  /\ pc' = IF raised THEN "raised" ELSE "returned"
  \* the frame is gone: its locals, and the page with the browser
  /\ plan_len' = 0 /\ step_mode' = FALSE /\ step' = 0 /\ phase' = "none"
  /\ iteration' = 0 /\ pending' = <<>> /\ results' = <<>> /\ contents' = <<>>
  /\ page_url' = "u_empty" /\ page_closed' = TRUE
  /\ model_calls' = 0 /\ loop_exit' = "none"

\* main.run, lines 86-108: policy built and installed, stop flag reset, plan
\* made; generate_plan is called outside any try and may raise
RunStart(n, plan_raises) ==
  /\ pc = "idle"
  /\ workflow' = "general"
  /\ action_count' = 0
  /\ token_count' = 0
  /\ elapsed' = 0
  /\ violations' = <<>>
  /\ record_calls' = 0
  /\ _safety_policy' = "installed"
  /\ emergency_stop' = reset_stop
  /\ plan_raises => n = 0
  /\ plan_len' = n
  /\ pc' = IF plan_raises THEN "raised" ELSE "confirm"
  /\ UNCHANGED <<scope, stop_calls, app_vars, parse_vars, ask_user_fn, step_mode, step, phase, iteration, pending,
                 results, contents, browser_vars, history_vars>>

\* the plan preview shown after the browser launch, inside the try block
ConfirmPlan_after_launch(confirm, approval) ==
  /\ pc = "confirm"
  /\ IF confirm /\ approval = "no"
     THEN pc' = "returned" /\ browser' = "closed" /\ UNCHANGED step_mode
     ELSE pc' = "launch" /\ step_mode' = (confirm /\ approval = "step") /\ UNCHANGED browser
  /\ UNCHANGED <<policy_vars, stop_vars, app_vars, parse_vars, _safety_policy, workflow, ask_user_fn, plan_len, step, phase,
                 iteration, pending, results, contents, page_url, page_closed, history_vars>>

\* main.run, lines 110-118: the plan preview
ConfirmPlan(confirm, approval) ==
  /\ pc = "confirm"
  /\ IF confirm /\ approval = "no"
     THEN pc' = "returned" /\ UNCHANGED step_mode
     ELSE pc' = "launch" /\ step_mode' = (confirm /\ approval = "step")
  /\ UNCHANGED <<policy_vars, stop_vars, app_vars, parse_vars, _safety_policy, workflow, ask_user_fn, plan_len, step, phase,
                 iteration, pending, results, contents, browser_vars, history_vars>>

\* main.run, lines 120-135: the browser is launched before the try block:
\* sync_playwright().start() raises ("nothing"), or chromium.launch raises
\* ("driver_only"), or new_context, new_page or goto raises with the browser
\* open ("page_fails"), or all succeed ("ok")
LaunchBrowser(outcome) ==
  /\ pc = "launch"
  /\ CASE outcome = "ok" ->
            /\ browser' = "open" /\ page_url' = "u_blank" /\ step' = 1
            /\ pc' = "step_check"
       [] outcome = "driver_only" ->
            /\ browser' = "driver" /\ pc' = "raised"
            /\ UNCHANGED <<page_url, step>>
       [] outcome = "page_fails" ->
            /\ browser' = "open" /\ pc' = "raised"
            /\ UNCHANGED <<page_url, step>>
       [] outcome = "nothing" ->
            /\ pc' = "raised" /\ UNCHANGED <<browser, page_url, step>>
  /\ UNCHANGED <<policy_vars, stop_vars, app_vars, parse_vars, _safety_policy, workflow, ask_user_fn, plan_len, step_mode,
                 phase, iteration, pending, results, contents, page_closed, history_vars>>

\* main.run, lines 139-142: the head of the step loop
StepCheck ==
  /\ pc = "step_check"
  /\ pc' = IF step > plan_len \/ is_stopped THEN "summary" ELSE "step_begin"
  /\ UNCHANGED <<policy_vars, stop_vars, app_vars, parse_vars, _safety_policy, workflow, ask_user_fn, plan_len, step_mode, step,
                 phase, iteration, pending, results, contents, browser_vars, history_vars>>

\* a declined step reported as a failed one
StepBegin_counts_declined(answer, shot, close_ok) ==
  /\ pc = "step_begin"
  /\ (answer # "yes") => (step_mode /\ shot = "ok")
  /\ (shot = "raises") => ~page_closed
  /\ (answer \in {"yes", "no"} /\ shot = "ok") => close_ok
  /\ CASE answer = "no" ->
            /\ step' = step + 1 /\ pc' = "step_check"
            /\ step_log' = Append(step_log, "failed")
            /\ UNCHANGED <<plan_len, step_mode, phase, iteration, pending, results, contents,
                           browser_vars, model_calls, loop_exit>>
       [] answer = "cancel" ->
            /\ Finally(close_ok, FALSE)
            /\ UNCHANGED step_log
       [] answer = "yes" /\ shot = "raises" ->
            /\ Finally(close_ok, TRUE)
            /\ UNCHANGED step_log
       [] answer = "yes" /\ shot = "ok" ->
            /\ iteration' = 0 /\ model_calls' = 0 /\ loop_exit' = "none"
            /\ pc' = "turn_check"
            /\ contents' = <<PromptTurn>>
            /\ UNCHANGED <<plan_len, step_mode, step, phase, pending, results,
                           browser_vars, step_log>>
  /\ UNCHANGED <<policy_vars, stop_vars, app_vars, parse_vars, _safety_policy, workflow, ask_user_fn, allowed_dispatched,
                 unchecked_ops>>

\* main.run, lines 144-201: step confirmation, first screenshot, prompt
StepBegin(answer, shot, close_ok) ==
  /\ pc = "step_begin"
  /\ (answer # "yes") => (step_mode /\ shot = "ok")
  /\ (shot = "raises") => ~page_closed
  /\ (answer \in {"yes", "no"} /\ shot = "ok") => close_ok
  /\ CASE answer = "no" ->
            /\ step' = step + 1 /\ pc' = "step_check"
            /\ step_log' = Append(step_log, "skipped")
            /\ UNCHANGED <<plan_len, step_mode, phase, iteration, pending, results, contents,
                           browser_vars, model_calls, loop_exit>>
       [] answer = "cancel" ->
            /\ Finally(close_ok, FALSE)
            /\ UNCHANGED step_log
       [] answer = "yes" /\ shot = "raises" ->
            /\ Finally(close_ok, TRUE)
            /\ UNCHANGED step_log
       [] answer = "yes" /\ shot = "ok" ->
            /\ iteration' = 0 /\ model_calls' = 0 /\ loop_exit' = "none"
            /\ pc' = "turn_check"
            /\ contents' = <<PromptTurn>>
            /\ UNCHANGED <<plan_len, step_mode, step, phase, pending, results,
                           browser_vars, step_log>>
  /\ UNCHANGED <<policy_vars, stop_vars, app_vars, parse_vars, _safety_policy, workflow, ask_user_fn, allowed_dispatched,
                 unchecked_ops>>

\* main.run, lines 204-206: the head of the turn loop
TurnCheck ==
  /\ pc = "turn_check"
  /\ workflow = "general"
  /\ IF iteration >= STEP_TURNS
     THEN pc' = "validate" /\ loop_exit' = "exhausted"
     ELSE IF is_stopped
     THEN pc' = "validate" /\ loop_exit' = "stopped"
     ELSE pc' = "model_call" /\ UNCHANGED loop_exit
  /\ UNCHANGED <<policy_vars, stop_vars, app_vars, parse_vars, _safety_policy, workflow, ask_user_fn, plan_len, step_mode, step,
                 phase, iteration, pending, results, contents, browser_vars, model_calls,
                 allowed_dispatched, unchecked_ops, step_log>>

\* the turn loop going on to its next turn after a reply without calls
ModelCall_goes_on(raises, usage, batch) ==
  /\ pc = "model_call"
  /\ workflow = "general"
  /\ raises => batch = <<>>
  /\ model_calls' = model_calls + 1
  /\ IF raises
     THEN /\ pc' = "validate" /\ loop_exit' = "api_error"
          /\ UNCHANGED <<action_count, token_count, record_calls, pending, results, contents>>
     ELSE /\ IF usage >= 0
             THEN /\ action_count' = record_action(usage).action_count
                  /\ token_count' = record_action(usage).token_count
                  /\ record_calls' = record_calls + 1
             ELSE UNCHANGED <<action_count, token_count, record_calls>>
          /\ IF batch = <<>>
             THEN pc' = "respond" /\ UNCHANGED <<loop_exit, pending, results>>
             ELSE pc' = "dispatch" /\ pending' = batch /\ results' = <<>> /\ UNCHANGED loop_exit
          /\ contents' = <<ModelTurn(batch)>>
  /\ UNCHANGED <<scope, elapsed, violations, stop_vars, app_vars, parse_vars, _safety_policy, workflow, ask_user_fn, plan_len,
                 step_mode, step, phase, iteration, browser_vars, allowed_dispatched,
                 unchecked_ops, step_log>>

\* main.run, lines 208-242: the model call, token accounting, the reply's calls.
\* The replies explored have a candidate whose content has parts.
ModelCall(raises, usage, batch) ==
  /\ pc = "model_call"
  /\ workflow = "general"
  /\ raises => batch = <<>>
  /\ model_calls' = model_calls + 1
  /\ IF raises
     THEN /\ pc' = "validate" /\ loop_exit' = "api_error"
          /\ UNCHANGED <<action_count, token_count, record_calls, pending, results, contents>>
     ELSE /\ IF usage >= 0
             THEN /\ action_count' = record_action(usage).action_count
                  /\ token_count' = record_action(usage).token_count
                  /\ record_calls' = record_calls + 1
             ELSE UNCHANGED <<action_count, token_count, record_calls>>
          /\ IF batch = <<>>
             THEN pc' = "validate" /\ loop_exit' = "no_calls" /\ UNCHANGED <<pending, results>>
             ELSE pc' = "dispatch" /\ pending' = batch /\ results' = <<>> /\ UNCHANGED loop_exit
          /\ contents' = <<ModelTurn(batch)>>
  /\ UNCHANGED <<scope, elapsed, violations, stop_vars, app_vars, parse_vars, _safety_policy, workflow, ask_user_fn, plan_len,
                 step_mode, step, phase, iteration, browser_vars, allowed_dispatched,
                 unchecked_ops, step_log>>

\* the for loop taking the last of the calls first
NextCall_last(calls) == calls[Len(calls)]

\* execute_function_calls, line 335: for fc in function_calls takes the
\* calls in the order of the model's reply
NextCall(calls) == Head(calls)

\* _check_safety that calls record_action for a denied action as well
_check_safety_records_denied(a, u) ==
  IF _safety_policy = "None"
  THEN [blocked |-> FALSE, recorded |-> FALSE, reason |-> NoReason]
  ELSE LET r == check_safety(a, u)
       IN  [blocked |-> ~r.allowed, recorded |-> TRUE, reason |-> r.reason]

\* _check_safety, actions.py lines 48-73: nothing without a policy; the
\* blocked result with the policy's reason when check_safety denies;
\* record_action when it allows
_check_safety(a, u) ==
  IF _safety_policy = "None"
  THEN [blocked |-> FALSE, recorded |-> FALSE, reason |-> NoReason]
  ELSE LET r == check_safety(a, u)
       IN  [blocked |-> ~r.allowed, recorded |-> r.allowed, reason |-> r.reason]

\* the dispatcher letting an acknowledged call through without the policy's verdict
ExecuteAction_decision_bypasses(browser_raises, args, close_ok) ==
  /\ pc = "dispatch"
  /\ pending # <<>>
  /\ LET a == NextCall(pending)
         u == CheckedUrl(a)
         checked == _safety_policy # "None"
         raises == args = "bad_decision" \/ (args = "bad_url" /\ checked)
         bad_goto == args = "bad_url" /\ TargetUrl(a) # "u_empty"
         denied == args # "decision" /\ _check_safety(a, u).blocked
         performed == ~denied /\ TouchesPage(a) /\ ~page_closed /\ ~browser_raises /\ ~bad_goto
         outcome == IF denied THEN "blocked"
                    ELSE IF ~KnownAction(a) THEN "unknown"
                    ELSE IF TouchesPage(a) /\ (page_closed \/ browser_raises \/ bad_goto)
                    THEN "error"
                    ELSE "ok"
     IN  /\ browser_raises => (~raises /\ ~denied /\ TouchesPage(a) /\ ~page_closed /\ ~bad_goto)
         /\ ~raises => close_ok
         /\ IF raises
            THEN /\ Finally(close_ok, TRUE)
                 /\ UNCHANGED <<violations, action_count, token_count, record_calls,
                                allowed_dispatched, unchecked_ops>>
            ELSE /\ denied => Len(violations) < MaxViolations
                 /\ violations' = IF checked THEN ViolationsAfterCheck(a, u) ELSE violations
                 /\ IF _check_safety(a, u).recorded
                    THEN /\ action_count' = record_action(0).action_count
                         /\ token_count' = record_action(0).token_count
                         /\ record_calls' = record_calls + 1
                    ELSE UNCHANGED <<action_count, token_count, record_calls>>
                 /\ allowed_dispatched' = IF checked /\ ~denied THEN allowed_dispatched + 1
                                                                ELSE allowed_dispatched
                 /\ unchecked_ops' = IF performed /\ ~checked THEN unchecked_ops \cup {a}
                                                                ELSE unchecked_ops
                 /\ page_url' = IF performed /\ TargetUrl(a) # "u_empty" THEN TargetUrl(a)
                                                                          ELSE page_url
                 /\ results' = Append(results, [name |-> a, outcome |-> outcome,
                                                 reason |-> _check_safety(a, u).reason,
                                                 has_safety_decision |-> args = "decision"])
                 /\ pending' = Tail(pending)
                 /\ pc' = IF Tail(pending) = <<>> THEN "respond" ELSE "dispatch"
                 /\ UNCHANGED <<plan_len, step_mode, step, phase, iteration, browser, page_closed,
                                model_calls, loop_exit, contents>>
  /\ UNCHANGED <<scope, elapsed, stop_vars, app_vars, parse_vars, _safety_policy, workflow, ask_user_fn,
                 step_log>>

\* execute_function_calls, one pass of its for loop: _handle_safety_decision,
\* then execute_action with _check_safety and _execute_action_internal.
\* args is what the call's argument map holds besides the action's own
\* arguments: "plain" for nothing, "decision" for a safety_decision that
\* requires confirmation (acknowledged on the spot, taken out of the
\* arguments, and remembered in the result), "bad_decision" for one that
\* is no dict (safety_decision.get, line 362), "bad_url" for a url that is
\* neither empty nor a string (url.lower() in _is_domain_blocked).  Neither
\* _handle_safety_decision nor _check_safety is inside a try.
ExecuteAction(browser_raises, args, close_ok) ==
  /\ pc = "dispatch"
  /\ pending # <<>>
  /\ LET a == NextCall(pending)
         u == CheckedUrl(a)
         checked == _safety_policy # "None"
         raises == args = "bad_decision" \/ (args = "bad_url" /\ checked)
         bad_goto == args = "bad_url" /\ TargetUrl(a) # "u_empty"
         denied == _check_safety(a, u).blocked
         performed == ~denied /\ TouchesPage(a) /\ ~page_closed /\ ~browser_raises /\ ~bad_goto
         outcome == IF denied THEN "blocked"
                    ELSE IF ~KnownAction(a) THEN "unknown"
                    ELSE IF TouchesPage(a) /\ (page_closed \/ browser_raises \/ bad_goto)
                    THEN "error"
                    ELSE "ok"
     IN  /\ browser_raises => (~raises /\ ~denied /\ TouchesPage(a) /\ ~page_closed /\ ~bad_goto)
         /\ ~raises => close_ok
         /\ IF raises
            THEN /\ Finally(close_ok, TRUE)
                 /\ UNCHANGED <<violations, action_count, token_count, record_calls,
                                allowed_dispatched, unchecked_ops>>
            ELSE /\ denied => Len(violations) < MaxViolations
                 /\ violations' = IF checked THEN ViolationsAfterCheck(a, u) ELSE violations
                 /\ IF _check_safety(a, u).recorded
                    THEN /\ action_count' = record_action(0).action_count
                         /\ token_count' = record_action(0).token_count
                         /\ record_calls' = record_calls + 1
                    ELSE UNCHANGED <<action_count, token_count, record_calls>>
                 /\ allowed_dispatched' = IF checked /\ ~denied THEN allowed_dispatched + 1
                                                                ELSE allowed_dispatched
                 /\ unchecked_ops' = IF performed /\ ~checked THEN unchecked_ops \cup {a}
                                                                ELSE unchecked_ops
                 /\ page_url' = IF performed /\ TargetUrl(a) # "u_empty" THEN TargetUrl(a)
                                                                          ELSE page_url
                 /\ results' = Append(results, [name |-> a, outcome |-> outcome,
                                                 reason |-> _check_safety(a, u).reason,
                                                 has_safety_decision |-> args = "decision"])
                 /\ pending' = Tail(pending)
                 /\ pc' = IF Tail(pending) = <<>> THEN "respond" ELSE "dispatch"
                 /\ UNCHANGED <<plan_len, step_mode, step, phase, iteration, browser, page_closed,
                                model_calls, loop_exit, contents>>
  /\ UNCHANGED <<scope, elapsed, stop_vars, app_vars, parse_vars, _safety_policy, workflow, ask_user_fn,
                 step_log>>

\* main.run, lines 248-274: function responses and the next screenshot
Respond(shot, close_ok) ==
  /\ pc = "respond"
  /\ workflow = "general"
  /\ (shot = "raises") => ~page_closed
  /\ (shot = "ok") => close_ok
  /\ IF shot = "raises"
     THEN Finally(close_ok, TRUE)
     ELSE /\ pc' = "turn_check" /\ iteration' = iteration + 1
          \* lines 257-274: the turn with the function responses is built and
          \* appended only when the page is open
          /\ contents' = IF page_closed THEN contents
                                        ELSE Append(contents, ResponsesTurn(results))
          \* the results are a local of the turn that ends here
          /\ results' = <<>>
          /\ UNCHANGED <<plan_len, step_mode, step, phase, pending, browser_vars,
                         model_calls, loop_exit>>
  /\ UNCHANGED <<policy_vars, stop_vars, app_vars, parse_vars, _safety_policy, workflow, ask_user_fn, allowed_dispatched,
                 unchecked_ops, step_log>>

\* the step loop run as a retry loop: a step whose validation failed is begun again
Validate_retries(outcome, close_ok) ==
  /\ pc = "validate"
  /\ (outcome = "closed") <=> page_closed
  /\ (outcome # "raises") => close_ok
  /\ IF outcome = "raises"
     THEN Finally(close_ok, TRUE) /\ UNCHANGED step_log
     ELSE /\ step_log' = Append(step_log,
                 CASE outcome = "success" -> "completed"
                   [] outcome = "failure" -> "failed"
                   [] outcome = "closed"  -> "unvalidated")
          /\ step' = IF outcome = "failure" THEN step ELSE step + 1
          /\ pc' = "step_check"
          \* the turn loop's variables are dead from here on
          /\ iteration' = 0 /\ pending' = <<>> /\ results' = <<>> /\ model_calls' = 0
          /\ contents' = <<>>
          /\ UNCHANGED <<plan_len, step_mode, phase, browser_vars, loop_exit>>
  /\ UNCHANGED <<policy_vars, stop_vars, app_vars, parse_vars, _safety_policy, workflow, ask_user_fn, allowed_dispatched,
                 unchecked_ops>>

\* main.run, lines 276-293: validation of the step
Validate(outcome, close_ok) ==
  /\ pc = "validate"
  /\ (outcome = "closed") <=> page_closed
  /\ (outcome # "raises") => close_ok
  /\ IF outcome = "raises"
     THEN Finally(close_ok, TRUE) /\ UNCHANGED step_log
     ELSE /\ step_log' = Append(step_log,
                 CASE outcome = "success" -> "completed"
                   [] outcome = "failure" -> "failed"
                   [] outcome = "closed"  -> "unvalidated")
          /\ step' = step + 1
          /\ pc' = "step_check"
          \* the turn loop's variables are dead from here on
          /\ iteration' = 0 /\ pending' = <<>> /\ results' = <<>> /\ model_calls' = 0
          /\ contents' = <<>>
          /\ UNCHANGED <<plan_len, step_mode, phase, browser_vars, loop_exit>>
  /\ UNCHANGED <<policy_vars, stop_vars, app_vars, parse_vars, _safety_policy, workflow, ask_user_fn, allowed_dispatched,
                 unchecked_ops>>

\* main.run: completed and failed, as counted at lines 284 and 293
completed == Cardinality({i \in 1..Len(step_log) : step_log[i] = "completed"})
failed == Cardinality({i \in 1..Len(step_log) : step_log[i] = "failed"})

\* main.run, line 296: _print_summary
PrintSummary ==
  /\ pc = "summary"
  /\ pc' = "hang"
  /\ loop_exit' = "none"
  /\ UNCHANGED <<policy_vars, stop_vars, app_vars, parse_vars, _safety_policy, control_vars_but_pc, browser_vars,
                 model_calls, allowed_dispatched, unchecked_ops, step_log>>

\* the positions inside the try block of main.run and of execute
InTry ==
  pc \in {"step_check", "step_begin", "turn_check", "model_call", "dispatch", "respond",
          "validate", "summary", "hang",
          "f_launch", "f_navigate", "f_loop_begin", "f_turn", "f_ask", "f_handoff"}

\* Ctrl+C: KeyboardInterrupt raised inside the try block (lines 302-303); it
\* is the only way out of the final while True
KeyboardInterrupt(close_ok) ==
  /\ InTry
  /\ Finally(close_ok, FALSE)
  /\ UNCHANGED <<policy_vars, stop_vars, app_vars, parse_vars, _safety_policy, workflow, ask_user_fn, allowed_dispatched,
                 unchecked_ops, step_log>>

\* the user closes the page
ClosePage ==
  /\ InTry
  /\ ~page_closed
  /\ page_closed' = TRUE
  /\ UNCHANGED <<policy_vars, stop_vars, app_vars, parse_vars, _safety_policy, control_vars, browser, page_url,
                 history_vars>>

\* trigger_emergency_stop() called from outside the run loop, at any point
\* from which the run can still read the flag
ExternalStop ==
  /\ pc \in {"confirm", "launch", "step_check", "step_begin", "turn_check", "model_call",
             "dispatch", "respond", "validate",
             "f_launch", "f_navigate", "f_loop_begin", "f_turn", "f_ask", "f_handoff"}
  /\ ~emergency_stop
  /\ emergency_stop' = trigger_emergency_stop
  /\ UNCHANGED <<policy_vars, stop_calls, run_vars, app_vars, parse_vars>>

\* main.run called once with no scope argument, as main() and the web
\* server call it, in a process whose stop flag may be left set.  The limits
\* of the default scope are out of reach of a plan of MaxSteps steps.
Init ==
  /\ scope = DefaultScope
  /\ action_count = 0
  /\ token_count = 0
  /\ elapsed = 0
  /\ violations = <<>>
  /\ record_calls = 0
  /\ emergency_stop \in BOOLEAN
  /\ stop_calls = <<>>
  /\ NoRun
  /\ NoApp

Next ==
  \/ \E n \in 0..MaxSteps, plan_raises \in BOOLEAN : RunStart(n, plan_raises)
  \/ \E confirm \in BOOLEAN, approval \in {"yes", "no", "step"} : ConfirmPlan(confirm, approval)
  \/ \E outcome \in {"ok", "driver_only", "page_fails", "nothing"} : LaunchBrowser(outcome)
  \/ StepCheck
  \/ \E answer \in {"yes", "no", "cancel"}, shot \in {"ok", "raises"}, close_ok \in BOOLEAN :
       StepBegin(answer, shot, close_ok)
  \/ TurnCheck
  \/ \E raises \in BOOLEAN, usage \in UsageOptions, batch \in FunctionCallBatches :
       ModelCall(raises, usage, batch)
  \/ \E browser_raises \in BOOLEAN, args \in {"plain", "decision", "bad_decision", "bad_url"},
          close_ok \in BOOLEAN : ExecuteAction(browser_raises, args, close_ok)
  \/ \E shot \in {"ok", "raises"}, close_ok \in BOOLEAN : Respond(shot, close_ok)
  \/ \E outcome \in {"success", "failure", "closed", "raises"}, close_ok \in BOOLEAN :
       Validate(outcome, close_ok)
  \/ PrintSummary
  \/ \E close_ok \in BOOLEAN : KeyboardInterrupt(close_ok)
  \/ ClosePage
  \/ ExternalStop

Spec == Init /\ [][Next]_vars

\* run(goal, scope=...): a caller's scope with a small budget of actions
BudgetScopes == {[DefaultScope EXCEPT !.max_actions = m] : m \in 1..MaxActionsBound}

BudgetInit ==
  /\ scope \in BudgetScopes
  /\ action_count = 0
  /\ token_count = 0
  /\ elapsed = 0
  /\ violations = <<>>
  /\ record_calls = 0
  /\ emergency_stop \in BOOLEAN
  /\ stop_calls = <<>>
  /\ NoRun
  /\ NoApp

\* the steps of a run with a plan of at most MaxBudgetSteps steps, and with
\* model replies that carry no usage_metadata among the replies (main.run,
\* line 221: nothing is recorded for such a turn)
BudgetNext ==
  \/ \E n \in 0..MaxBudgetSteps, plan_raises \in BOOLEAN : RunStart(n, plan_raises)
  \/ \E confirm \in BOOLEAN, approval \in {"yes", "no", "step"} : ConfirmPlan(confirm, approval)
  \/ \E outcome \in {"ok", "driver_only", "page_fails", "nothing"} : LaunchBrowser(outcome)
  \/ StepCheck
  \/ \E answer \in {"yes", "no", "cancel"}, shot \in {"ok", "raises"}, close_ok \in BOOLEAN :
       StepBegin(answer, shot, close_ok)
  \/ TurnCheck
  \/ \E raises \in BOOLEAN, usage \in UsageOptions \cup {-1}, batch \in FunctionCallBatches :
       ModelCall(raises, usage, batch)
  \/ \E browser_raises \in BOOLEAN, args \in {"plain", "decision", "bad_decision", "bad_url"},
          close_ok \in BOOLEAN : ExecuteAction(browser_raises, args, close_ok)
  \/ \E shot \in {"ok", "raises"}, close_ok \in BOOLEAN : Respond(shot, close_ok)
  \/ \E outcome \in {"success", "failure", "closed", "raises"}, close_ok \in BOOLEAN :
       Validate(outcome, close_ok)
  \/ PrintSummary
  \/ \E close_ok \in BOOLEAN : KeyboardInterrupt(close_ok)
  \/ ClosePage
  \/ ExternalStop

SpecBudget == BudgetInit /\ [][BudgetNext]_vars

(***************************************************************************)
(* FlightBookingWorkflow.execute.  It installs no safety policy and reads  *)
(* no stop flag; its three turn loops go through execute_function_calls.   *)
(***************************************************************************)
\* _fill_search_form: for turn in range(20)
SEARCH_FORM_TURNS == 20

\* _click_selected_flight: for turn in range(8)
SELECT_FLIGHT_TURNS == 8

\* _proceed_to_booking: for turn in range(15)
BOOKING_TURNS == 15

\* the range of the turn loop of a phase
TurnLimit(p) ==
  CASE p = "fill"    -> SEARCH_FORM_TURNS
    [] p = "select"  -> SELECT_FLIGHT_TURNS
    [] p = "proceed" -> BOOKING_TURNS

\* the function calls a model response carries in the flight workflow
FlightCallBatches == { <<>>, <<"a_click">>, <<"a_type_card">> }

\* FlightBookingWorkflow.__init__ and execute, lines 36-43
FlightStart(fn) ==
  /\ pc = "idle"
  /\ workflow' = "flight"
  /\ ask_user_fn' = fn
  /\ pc' = "f_launch"
  /\ UNCHANGED <<policy_vars, stop_vars, app_vars, parse_vars, _safety_policy, plan_len, step_mode, step, phase,
                 iteration, pending, results, contents, browser_vars, history_vars>>

\* _launch_browser, inside the try block of execute: the outcomes of
\* LaunchBrowser, each followed by the finally block when it raises
FlightLaunch(outcome, close_ok) ==
  /\ pc = "f_launch"
  /\ CASE outcome = "ok" ->
            /\ browser' = "open" /\ page_url' = "u_blank" /\ pc' = "f_navigate"
            /\ UNCHANGED <<plan_len, step_mode, step, phase, iteration, pending, results, contents,
                           page_closed, model_calls, loop_exit>>
       \* self.browser is still None: _cleanup only stops the driver
       [] outcome = "driver_only" -> Finally(TRUE, TRUE)
       [] outcome = "page_fails" -> Finally(close_ok, TRUE)
       [] outcome = "nothing" ->
            /\ pc' = "raised"
            /\ UNCHANGED <<plan_len, step_mode, step, phase, iteration, pending, results, contents,
                           browser_vars, model_calls, loop_exit>>
  /\ UNCHANGED <<policy_vars, stop_vars, app_vars, parse_vars, _safety_policy, workflow, ask_user_fn,
                 allowed_dispatched, unchecked_ops, step_log>>

\* _navigate_to_booking_site
FlightNavigate(ok, close_ok) ==
  /\ pc = "f_navigate"
  /\ page_closed => ~ok
  /\ ok => close_ok
  /\ IF ok
     THEN /\ page_url' = "u_flights" /\ pc' = "f_loop_begin" /\ phase' = "fill"
          /\ UNCHANGED <<plan_len, step_mode, step, iteration, pending, results, contents, browser,
                         page_closed, model_calls, loop_exit>>
     ELSE Finally(close_ok, TRUE)
  /\ UNCHANGED <<policy_vars, stop_vars, app_vars, parse_vars, _safety_policy, workflow, ask_user_fn,
                 allowed_dispatched, unchecked_ops, step_log>>

\* the lines of _fill_search_form, _click_selected_flight and
\* _proceed_to_booking before their loop: first screenshot and prompt
FlightLoopBegin(shot, close_ok) ==
  /\ pc = "f_loop_begin"
  /\ page_closed => shot = "raises"
  /\ (shot = "ok") => close_ok
  /\ IF shot = "raises"
     THEN Finally(close_ok, TRUE)
     ELSE /\ iteration' = 0 /\ model_calls' = 0 /\ loop_exit' = "none" /\ pc' = "f_turn"
          /\ UNCHANGED <<plan_len, step_mode, step, phase, pending, results, contents, browser_vars>>
  /\ UNCHANGED <<policy_vars, stop_vars, app_vars, parse_vars, _safety_policy, workflow, ask_user_fn,
                 allowed_dispatched, unchecked_ops, step_log>>

\* what follows the turn loop of a phase
\* the search form's loop followed at once by the selection of a flight
AfterLoop_skips_ask(p) ==
  CASE p = "fill"    -> [pc |-> "f_loop_begin", phase |-> "select"]
    [] p = "select"  -> [pc |-> "f_loop_begin", phase |-> "proceed"]
    [] p = "proceed" -> [pc |-> "f_handoff", phase |-> "none"]

AfterLoop(p) ==
  CASE p = "fill"    -> [pc |-> "f_ask", phase |-> "none"]
    [] p = "select"  -> [pc |-> "f_loop_begin", phase |-> "proceed"]
    [] p = "proceed" -> [pc |-> "f_handoff", phase |-> "none"]

\* one turn of a flight turn loop up to the execution of its calls: the
\* loop head, generate_content (outside any try), the reply's calls
FlightTurn(raises, batch, close_ok) ==
  /\ pc = "f_turn"
  /\ raises => (batch = <<>> /\ iteration < TurnLimit(phase))
  /\ ~raises => close_ok
  /\ IF iteration >= TurnLimit(phase)
     THEN /\ batch = <<>>
          /\ loop_exit' = "exhausted"
          /\ pc' = AfterLoop(phase).pc /\ phase' = AfterLoop(phase).phase
          /\ iteration' = 0 /\ model_calls' = 0
          /\ UNCHANGED <<plan_len, step_mode, step, pending, results, contents, browser_vars>>
     ELSE IF raises
     THEN Finally(close_ok, TRUE)
     ELSE IF batch = <<>>
     THEN /\ loop_exit' = "no_calls"
          /\ pc' = AfterLoop(phase).pc /\ phase' = AfterLoop(phase).phase
          /\ iteration' = 0 /\ model_calls' = 0
          /\ UNCHANGED <<plan_len, step_mode, step, pending, results, contents, browser_vars>>
     ELSE /\ model_calls' = model_calls + 1
          /\ pending' = batch /\ results' = <<>> /\ pc' = "dispatch"
          /\ UNCHANGED <<plan_len, step_mode, step, phase, iteration, browser_vars, loop_exit,
                         contents>>
  /\ UNCHANGED <<policy_vars, stop_vars, app_vars, parse_vars, _safety_policy, workflow, ask_user_fn,
                 allowed_dispatched, unchecked_ops, step_log>>

\* the rest of a flight turn: get_function_responses and the next screenshot
FlightRespond(shot, close_ok) ==
  /\ pc = "respond"
  /\ workflow = "flight"
  /\ (shot = "raises") => ~page_closed
  /\ (shot = "ok") => close_ok
  /\ IF shot = "raises"
     THEN Finally(close_ok, TRUE)
     ELSE /\ pc' = "f_turn" /\ iteration' = iteration + 1
          /\ pending' = <<>> /\ results' = <<>>
          /\ UNCHANGED <<plan_len, step_mode, step, phase, browser_vars, model_calls,
                         loop_exit, contents>>
  /\ UNCHANGED <<policy_vars, stop_vars, app_vars, parse_vars, _safety_policy, workflow, ask_user_fn,
                 allowed_dispatched, unchecked_ops, step_log>>

\* _wait_for_results and _ask_user_to_pick_flight up to the user's choice:
\* screenshot, the describing model call, the question
FlightAsk(outcome, close_ok) ==
  /\ pc = "f_ask"
  /\ page_closed => outcome = "raises"
  /\ (outcome \in {"answered", "timeout"}) => ask_user_fn = "chat"
  /\ (outcome = "no_callback") => ask_user_fn = "None"
  /\ (outcome \in {"answered", "no_callback"}) => close_ok
  /\ CASE outcome = "answered" ->
            /\ pc' = "f_loop_begin" /\ phase' = "select"
            /\ UNCHANGED <<plan_len, step_mode, step, iteration, pending, results, contents,
                           browser_vars, model_calls, loop_exit>>
       [] outcome = "no_callback" ->
            /\ pc' = "f_loop_begin" /\ phase' = "proceed"
            /\ UNCHANGED <<plan_len, step_mode, step, iteration, pending, results, contents,
                           browser_vars, model_calls, loop_exit>>
       [] outcome \in {"raises", "timeout"} -> Finally(close_ok, TRUE)
  /\ UNCHANGED <<policy_vars, stop_vars, app_vars, parse_vars, _safety_policy, workflow, ask_user_fn,
                 allowed_dispatched, unchecked_ops, step_log>>

\* _handoff_payment
FlightHandoff(outcome, close_ok) ==
  /\ pc = "f_handoff"
  /\ (ask_user_fn = "chat" /\ page_closed) => outcome = "raises"
  /\ (outcome \in {"raises", "timeout"}) => ask_user_fn = "chat"
  /\ (outcome = "done") => close_ok
  /\ IF outcome = "done"
     THEN /\ pc' = "hang" /\ loop_exit' = "none"
          /\ UNCHANGED <<plan_len, step_mode, step, phase, iteration, pending, results, contents,
                         browser_vars, model_calls>>
     ELSE Finally(close_ok, TRUE)
  /\ UNCHANGED <<policy_vars, stop_vars, app_vars, parse_vars, _safety_policy, workflow, ask_user_fn,
                 allowed_dispatched, unchecked_ops, step_log>>

\* FlightBookingWorkflow.execute called once: from the command line in a
\* fresh process (no policy installed, no chat callback) or from the web
\* server, where an earlier general run may have left its policy installed
FlightInit ==
  /\ scope = DefaultScope
  /\ action_count = 0
  /\ token_count = 0
  /\ elapsed = 0
  /\ violations = <<>>
  /\ record_calls = 0
  /\ emergency_stop \in BOOLEAN
  /\ stop_calls = <<>>
  /\ _safety_policy \in {"None", "installed"}
  /\ workflow = "none"
  /\ ask_user_fn = "None"
  /\ pc = "idle"
  /\ plan_len = 0
  /\ step_mode = FALSE
  /\ step = 0
  /\ phase = "none"
  /\ iteration = 0
  /\ pending = <<>>
  /\ results = <<>>
  /\ contents = <<>>
  /\ browser = "none"
  /\ page_url = "u_empty"
  /\ page_closed = FALSE
  /\ model_calls = 0
  /\ allowed_dispatched = 0
  /\ unchecked_ops = {}
  /\ loop_exit = "none"
  /\ step_log = <<>>
  /\ NoApp

FlightNext ==
  \/ \E fn \in {"None", "chat"} : FlightStart(fn)
  \/ \E outcome \in {"ok", "driver_only", "page_fails", "nothing"}, close_ok \in BOOLEAN :
       FlightLaunch(outcome, close_ok)
  \/ \E ok \in BOOLEAN, close_ok \in BOOLEAN : FlightNavigate(ok, close_ok)
  \/ \E shot \in {"ok", "raises"}, close_ok \in BOOLEAN : FlightLoopBegin(shot, close_ok)
  \/ \E raises \in BOOLEAN, batch \in FlightCallBatches, close_ok \in BOOLEAN :
       FlightTurn(raises, batch, close_ok)
  \/ \E browser_raises \in BOOLEAN, args \in {"plain", "decision", "bad_decision", "bad_url"},
          close_ok \in BOOLEAN : ExecuteAction(browser_raises, args, close_ok)
  \/ \E shot \in {"ok", "raises"}, close_ok \in BOOLEAN : FlightRespond(shot, close_ok)
  \/ \E outcome \in {"answered", "timeout", "no_callback", "raises"}, close_ok \in BOOLEAN :
       FlightAsk(outcome, close_ok)
  \/ \E outcome \in {"done", "timeout", "raises"}, close_ok \in BOOLEAN :
       FlightHandoff(outcome, close_ok)
  \/ \E close_ok \in BOOLEAN : KeyboardInterrupt(close_ok)
  \/ ClosePage
  \/ ExternalStop

SpecFlight == FlightInit /\ [][FlightNext]_vars

(***************************************************************************)
(* The web server (app.py): chat requests handled on threads of their own, *)
(* the status record under status_lock, the two queues between chat and    *)
(* workflow, and the worker threads the chat handler starts.  Each step is *)
(* one critical section or one queue or thread operation.                  *)
(***************************************************************************)
\* automation_status["state"] == "running", lines 129-130
StatusIsRunning == automation_status.state = "running"

\* _set_status(state, message): the status record after the call
_set_status(state) == [automation_status EXCEPT !.state = state]

\* call i of _ask_user_via_chat has published its question (line 281) and
\* is blocked in chat_to_workflow.get (line 284)
QuestionOut(i) == worker[ask_log[i].w].pc = "ask_wait" /\ worker[ask_log[i].w].ask_id = i

\* chat(), lines 91-99: the message is read and, under status_lock, the
\* waiting_for_user indication.  The requests are numbered in the order in
\* which they take status_lock here.
ChatArrive(r) ==
  /\ handler[r] = "new"
  /\ \A q \in ReqIds : q < r => handler[q] # "new"
  /\ handler' = [handler EXCEPT ![r] =
                   IF automation_status.waiting_for_user THEN "route" ELSE "agent"]
  /\ ask_log' = [i \in 1..Len(ask_log) |->
                   IF QuestionOut(i)
                   THEN [ask_log[i] EXCEPT !.submitted = @ \cup {r}]
                   ELSE ask_log[i]]
  /\ UNCHANGED <<automation_status, chat_to_workflow, workflow_to_chat, response, worker,
                 policy_vars, stop_vars, run_vars, parse_vars>>

\* chat(), lines 101-113: the message goes to the workflow
ChatRoute(r) ==
  /\ handler[r] = "route"
  /\ chat_to_workflow' = Append(chat_to_workflow, r)
  /\ handler' = [handler EXCEPT ![r] = "clear"]
  /\ UNCHANGED <<automation_status, workflow_to_chat, response, worker,
                 ask_log, policy_vars, stop_vars, run_vars, parse_vars>>

\* chat(), lines 114-119: waiting_for_user is cleared under status_lock
ChatClearWaiting(r) ==
  /\ handler[r] = "clear"
  /\ automation_status' = [automation_status EXCEPT !.waiting_for_user = FALSE]
  /\ response' = [response EXCEPT ![r] = "routed"]
  /\ handler' = [handler EXCEPT ![r] = "done"]
  /\ UNCHANGED <<chat_to_workflow, workflow_to_chat, worker,
                 ask_log, policy_vars, stop_vars, run_vars, parse_vars>>

\* chat(), lines 121-127: the chat agent answers with a message or an action
ChatAgent(r, type) ==
  /\ handler[r] = "agent"
  /\ response' = [response EXCEPT ![r] = type]
  /\ handler' = [handler EXCEPT ![r] = IF type = "message" THEN "done" ELSE "check"]
  /\ UNCHANGED <<automation_status, chat_to_workflow, workflow_to_chat, worker,
                 ask_log, policy_vars, stop_vars, run_vars, parse_vars>>

\* chat(), lines 129-133: under status_lock, a running automation rejects
ChatStatusCheck(r) ==
  /\ handler[r] = "check"
  /\ IF StatusIsRunning
     THEN /\ response' = [response EXCEPT ![r] = "rejected"]
          /\ handler' = [handler EXCEPT ![r] = "done"]
     ELSE /\ handler' = [handler EXCEPT ![r] = "start"]
          /\ UNCHANGED response
  /\ UNCHANGED <<automation_status, chat_to_workflow, workflow_to_chat, worker,
                 ask_log, policy_vars, stop_vars, run_vars, parse_vars>>

\* chat(), lines 135-153: the worker thread is started, outside the lock
ChatStartThread(r) ==
  /\ handler[r] = "start"
  /\ worker' = [worker EXCEPT ![r] = [pc |-> "spawned", kind |-> response[r], asks |-> 0, ask_id |-> 0]]
  /\ handler' = [handler EXCEPT ![r] = "done"]
  /\ UNCHANGED <<automation_status, chat_to_workflow, workflow_to_chat, response,
                 ask_log, policy_vars, stop_vars, run_vars, parse_vars>>

\* _run_general_automation, line 221, and _run_flight_booking, line 240:
\* the first statement of the worker
WorkerSetRunning(r) ==
  /\ worker[r].pc = "spawned"
  /\ automation_status' = _set_status("running")
  /\ worker' = [worker EXCEPT ![r].pc = "running"]
  /\ UNCHANGED <<chat_to_workflow, workflow_to_chat, handler, response,
                 ask_log, policy_vars, stop_vars, run_vars, parse_vars>>

\* _run_general_automation, lines 224-234: run(goal, confirm=False) raises,
\* or stays in its final while True (no KeyboardInterrupt reaches a worker
\* thread)
WorkerGeneral(r, outcome) ==
  /\ worker[r].pc = "running"
  /\ worker[r].kind = "automate"
  /\ IF outcome = "raises"
     THEN /\ automation_status' = _set_status("error")
          /\ worker' = [worker EXCEPT ![r].pc = "ended"]
     ELSE /\ worker' = [worker EXCEPT ![r].pc = "hang"]
          /\ UNCHANGED automation_status
  /\ UNCHANGED <<chat_to_workflow, workflow_to_chat, handler, response,
                 ask_log, policy_vars, stop_vars, run_vars, parse_vars>>

\* _run_flight_booking, lines 245-264: the workflow between two questions:
\* it raises, or gets to its next question, or (both asked) stays in the
\* final while True of execute
WorkerFlight(r, outcome) ==
  /\ worker[r].pc = "running"
  /\ worker[r].kind = "book_flight"
  /\ (outcome = "hangs") <=> (worker[r].asks = 2)
  /\ CASE outcome = "raises" ->
            /\ automation_status' = _set_status("error")
            /\ worker' = [worker EXCEPT ![r].pc = "ended"]
       [] outcome = "asks" ->
            /\ worker' = [worker EXCEPT ![r].pc = "ask"]
            /\ UNCHANGED automation_status
       [] outcome = "hangs" ->
            /\ worker' = [worker EXCEPT ![r].pc = "hang"]
            /\ UNCHANGED automation_status
  /\ UNCHANGED <<chat_to_workflow, workflow_to_chat, handler, response,
                 ask_log, policy_vars, stop_vars, run_vars, parse_vars>>

\* _ask_user_via_chat, line 275: the status says waiting
AskSetWaiting(r) ==
  /\ worker[r].pc = "ask"
  /\ automation_status' = [_set_status("running") EXCEPT !.waiting_for_user = TRUE]
  /\ worker' = [worker EXCEPT ![r].pc = "ask_put", ![r].ask_id = Len(ask_log) + 1]
  /\ ask_log' = Append(ask_log, [w |-> r, submitted |-> {}, result |-> 0])
  /\ UNCHANGED <<chat_to_workflow, workflow_to_chat, handler, response,
                 policy_vars, stop_vars, run_vars, parse_vars>>

\* _ask_user_via_chat, lines 277-281: the question goes to the front end
AskPublish(r) ==
  /\ worker[r].pc = "ask_put"
  /\ workflow_to_chat' = Append(workflow_to_chat, [from |-> r, question |-> worker[r].asks + 1])
  /\ worker' = [worker EXCEPT ![r].pc = "ask_wait"]
  /\ UNCHANGED <<automation_status, chat_to_workflow, handler, response,
                 ask_log, policy_vars, stop_vars, run_vars, parse_vars>>

\* _ask_user_via_chat, line 284: chat_to_workflow.get returns the oldest message
AskGet(r) ==
  /\ worker[r].pc = "ask_wait"
  /\ chat_to_workflow # <<>>
  /\ chat_to_workflow' = Tail(chat_to_workflow)
  /\ worker' = [worker EXCEPT ![r].pc = "ask_return", ![r].asks = @ + 1]
  /\ ask_log' = [ask_log EXCEPT ![worker[r].ask_id].result = Head(chat_to_workflow)]
  /\ UNCHANGED <<automation_status, workflow_to_chat, handler, response,
                 policy_vars, stop_vars, run_vars, parse_vars>>

\* _ask_user_via_chat, lines 286-287
AskReturn(r) ==
  /\ worker[r].pc = "ask_return"
  /\ automation_status' = _set_status("running")
  /\ worker' = [worker EXCEPT ![r].pc = "running"]
  /\ UNCHANGED <<chat_to_workflow, workflow_to_chat, handler, response,
                 ask_log, policy_vars, stop_vars, run_vars, parse_vars>>

\* _ask_user_via_chat, line 284, as if get(timeout=300) returned an empty
\* answer at the timeout instead of raising
AskTimeout_returns_empty(r) ==
  /\ worker[r].pc = "ask_wait"
  /\ chat_to_workflow = <<>>
  /\ worker' = [worker EXCEPT ![r].pc = "ask_return", ![r].asks = @ + 1]
  /\ ask_log' = [ask_log EXCEPT ![worker[r].ask_id].result = -1]
  /\ UNCHANGED <<automation_status, chat_to_workflow, workflow_to_chat, handler, response,
                 policy_vars, stop_vars, run_vars, parse_vars>>

\* _ask_user_via_chat, line 284: get(timeout=300) raises queue.Empty, which
\* leaves execute through its finally and ends _run_flight_booking in its
\* except clause
AskTimeout(r) ==
  /\ worker[r].pc = "ask_wait"
  /\ chat_to_workflow = <<>>
  /\ automation_status' = _set_status("error")
  /\ worker' = [worker EXCEPT ![r].pc = "ended"]
  /\ ask_log' = [ask_log EXCEPT ![worker[r].ask_id].result = -1]
  /\ UNCHANGED <<chat_to_workflow, workflow_to_chat, handler, response,
                 policy_vars, stop_vars, run_vars, parse_vars>>

\* /api/workflow-message: the front end polls the oldest question
GetWorkflowMessage ==
  /\ workflow_to_chat # <<>>
  /\ workflow_to_chat' = Tail(workflow_to_chat)
  /\ UNCHANGED <<automation_status, chat_to_workflow, handler, response, worker,
                 ask_log, policy_vars, stop_vars, run_vars, parse_vars>>

AppInit ==
  /\ scope = DefaultScope
  /\ action_count = 0
  /\ token_count = 0
  /\ elapsed = 0
  /\ violations = <<>>
  /\ record_calls = 0
  /\ emergency_stop = FALSE
  /\ stop_calls = <<>>
  /\ NoRun
  /\ NoApp

AppNext ==
  \/ \E r \in ReqIds : ChatArrive(r)
  \/ \E r \in ReqIds : ChatRoute(r)
  \/ \E r \in ReqIds : ChatClearWaiting(r)
  \/ \E r \in ReqIds, type \in {"message", "automate", "book_flight"} : ChatAgent(r, type)
  \/ \E r \in ReqIds : ChatStatusCheck(r)
  \/ \E r \in ReqIds : ChatStartThread(r)
  \/ \E r \in ReqIds : WorkerSetRunning(r)
  \/ \E r \in ReqIds, outcome \in {"raises", "hangs"} : WorkerGeneral(r, outcome)
  \/ \E r \in ReqIds, outcome \in {"raises", "asks", "hangs"} : WorkerFlight(r, outcome)
  \/ \E r \in ReqIds : AskSetWaiting(r)
  \/ \E r \in ReqIds : AskPublish(r)
  \/ \E r \in ReqIds : AskGet(r)
  \/ \E r \in ReqIds : AskReturn(r)
  \/ \E r \in ReqIds : AskTimeout(r)
  \/ GetWorkflowMessage

SpecApp == AppInit /\ [][AppNext]_vars

(***************************************************************************)
(* The planner (utils/task_planner.py): TaskPlanner.plan applied to what   *)
(* the model call gives.  A JSON value is a record tagged with its type;   *)
(* a response text is what stands around the value (a markdown fence or    *)
(* nothing) and the value, or text that is no JSON at all.                 *)
(***************************************************************************)
\* most items in the "steps" list of a response
MaxPlanSteps == 2

JNull == [type |-> "null"]
JNum(n) == [type |-> "number", n |-> n]
JStr(s) == [type |-> "string", s |-> s]
JList(items) == [type |-> "list", items |-> items]
JObj(fields) == [type |-> "object", fields |-> fields]

\* an exception that leaves the function, and a value it returns
Raised(error) == [tag |-> "raise", error |-> error]
Returned(value) == [tag |-> "return", value |-> value]

\* the goal argument of plan
GOAL == JStr("go to the site and search")

StepKeys == {"step_num", "action", "description", "target", "value", "expected_result"}

\* a step object of a response with every field, and the same without some
FullStep(n, a) ==
  JObj([k \in StepKeys |->
          CASE k = "step_num"        -> JNum(n)
            [] k = "action"          -> JStr(a)
            [] k = "description"     -> JStr("what to do")
            [] k = "target"          -> JStr("the field")
            [] k = "value"           -> JStr("the text")
            [] k = "expected_result" -> JStr("what to see")])

Without(obj, keys) == JObj([k \in (DOMAIN obj.fields) \ keys |-> obj.fields[k]])

StepObjects ==
  {FullStep(n, a) : n \in 1..MaxPlanSteps, a \in {"navigate", "click"}}
    \cup {Without(FullStep(2, "type"), {k}) : k \in StepKeys}
    \cup {Without(FullStep(1, "click"), StepKeys)}

StepItems == StepObjects \cup {JStr("click the button"), JNum(7), JNull}

StepLists == UNION {[1..n -> StepItems] : n \in 0..MaxPlanSteps}

\* what a response may hold under "steps"
StepsValues ==
  {JList(l) : l \in StepLists}
    \cup {JNull, JNum(3), JStr(""), JStr("ab"), JObj(<<>>), JObj([k \in {"1"} |-> FullStep(1, "click")])}

PlanObjects ==
  {Without(JObj([k \in {"goal", "steps", "success_criteria"} |->
                   CASE k = "goal"             -> JStr("the goal as the model puts it")
                     [] k = "steps"            -> sv
                     [] k = "success_criteria" -> JStr("results are shown")]), absent) :
     sv \in StepsValues, absent \in SUBSET {"goal", "success_criteria"}}
    \cup {Without(JObj([k \in {"steps"} |-> JNull]), {"steps"})}

\* the JSON values of a response: objects, and values that are no object
JsonValues ==
  PlanObjects \cup {JNull, JNum(1), JStr("done"), JList(<<>>), JList(<<FullStep(1, "click")>>)}

\* what generate_content gives the planner: an exception, a response
\* without text (response.text is None), or a text: bare, or inside a
\* markdown fence with or without the word json after it
PlannerResponses ==
  {[kind |-> "raises"], [kind |-> "no_text"]}
    \cup [kind : {"text"}, fence : {"none", "fence", "fence_json"},
          body : {[json |-> FALSE]} \cup {[json |-> TRUE, value |-> v] : v \in JsonValues}]

\* dict.get(key, default)
Get(obj, key, default) ==
  IF key \in DOMAIN obj.fields THEN obj.fields[key] ELSE default

\* Step(...), lines 181-188
Step(s, idx) ==
  [step_num        |-> Get(s, "step_num", JNum(idx)),
   action          |-> Get(s, "action", JStr("unknown")),
   description     |-> Get(s, "description", JStr("")),
   target          |-> Get(s, "target", JNull),
   value           |-> Get(s, "value", JNull),
   expected_result |-> Get(s, "expected_result", JStr(""))]

\* enumerate(v): the items Python iterates over, for the values it can iterate
Iterate(v) ==
  CASE v.type = "list"   -> v.items
    [] v.type = "string" -> IF v.s = "" THEN <<>> ELSE <<JStr("a"), JStr("b")>>
    [] v.type = "object" -> IF DOMAIN v.fields = {} THEN <<>> ELSE <<JStr("1")>>
    [] OTHER             -> <<>>

\* _build_plan with the steps appended in reverse
_build_plan_reversed(data, goal) ==
  IF data.type # "object" THEN Raised("AttributeError")
  ELSE LET sv    == Get(data, "steps", JList(<<>>))
           items == Iterate(sv)
       IN  IF sv.type \in {"null", "number"} THEN Raised("TypeError")
           ELSE IF \E i \in 1..Len(items) : items[i].type # "object"
                THEN Raised("AttributeError")
                ELSE Returned([goal |-> Get(data, "goal", goal),
                               steps |-> [i \in 1..Len(items) |->
                                            Step(items[Len(items) + 1 - i], Len(items) + 1 - i)],
                               success_criteria |->
                                 Get(data, "success_criteria", JStr("Task completed"))])

\* _build_plan, lines 178-195; data.get and s.get exist on a dict only, and
\* enumerate needs an iterable
_build_plan(data, goal) ==
  IF data.type # "object" THEN Raised("AttributeError")
  ELSE LET sv    == Get(data, "steps", JList(<<>>))
           items == Iterate(sv)
       IN  IF sv.type \in {"null", "number"} THEN Raised("TypeError")
           ELSE IF \E i \in 1..Len(items) : items[i].type # "object"
                THEN Raised("AttributeError")
                ELSE Returned([goal |-> Get(data, "goal", goal),
                               steps |-> [i \in 1..Len(items) |-> Step(items[i], i)],
                               success_criteria |->
                                 Get(data, "success_criteria", JStr("Task completed"))])

\* _fallback_plan, lines 197-211
_fallback_plan(goal) ==
  [goal |-> goal,
   steps |-> <<[step_num        |-> JNum(1),
                action          |-> JStr("navigate"),
                description     |-> JStr("Open browser and navigate to complete the task"),
                target          |-> JStr("https://www.google.com"),
                value           |-> JNull,
                expected_result |-> JStr("Google homepage loaded")]>>,
   success_criteria |-> JStr("Task attempted")]

\* _parse_response, lines 159-176: the fence is taken off, json.loads reads
\* the rest, and only json.JSONDecodeError is caught
_parse_response(text, goal) ==
  IF ~text.body.json THEN Returned(_fallback_plan(goal))
  ELSE _build_plan(text.body.value, goal)

\* plan, lines 140-157: the model call is not guarded, and response.text may
\* be None
plan(response_, goal) ==
  CASE response_.kind = "raises"  -> Raised("model call")
    [] response_.kind = "no_text" -> Raised("AttributeError")
    [] response_.kind = "text"    -> _parse_response(response_, goal)

\* generate_plan(goal), utils/__init__.py lines 86-99
GeneratePlan ==
  /\ returned.tag = "pending"
  /\ returned' = plan(model_response, GOAL)
  /\ UNCHANGED <<model_response, policy_vars, stop_vars, run_vars, app_vars>>

PlannerInit ==
  /\ scope = DefaultScope
  /\ action_count = 0
  /\ token_count = 0
  /\ elapsed = 0
  /\ violations = <<>>
  /\ record_calls = 0
  /\ emergency_stop = FALSE
  /\ stop_calls = <<>>
  /\ NoRun
  /\ automation_status = [state |-> "idle", waiting_for_user |-> FALSE]
  /\ chat_to_workflow = <<>>
  /\ workflow_to_chat = <<>>
  /\ handler = [r \in ReqIds |-> "new"]
  /\ response = [r \in ReqIds |-> "none"]
  /\ worker = [r \in ReqIds |-> [pc |-> "none", kind |-> "none", asks |-> 0, ask_id |-> 0]]
  /\ ask_log = <<>>
  /\ model_response \in PlannerResponses
  /\ returned = [tag |-> "pending"]

PlannerNext == GeneratePlan

SpecPlanner == PlannerInit /\ [][PlannerNext]_vars

(***************************************************************************)
(* VisualValidator.validate (utils/visual_validator.py) as a function of   *)
(* what the model call gives.  Confidences are counted in tenths.          *)
(***************************************************************************)
JBool(b) == [type |-> "bool", b |-> b]

\* what generate_content gives the validator: an exception, a response
\* without text, or a text that is not JSON, or JSON: an object holding any
\* of the four keys of VALIDATOR_PROMPT, or a value that is not an object
ValidatorResponses ==
  LET Options(key, values) == {<<>>} \cup {key :> v : v \in values}
      objects == {JObj(a @@ b @@ c @@ d) :
                    a \in Options("success", {JBool(TRUE), JBool(FALSE)}),
                    b \in Options("reason", {JStr("results are listed")}),
                    c \in Options("confidence", {JNum(0), JNum(9)}),
                    d \in Options("error_type", {JNull, JStr("captcha")})}
      values  == objects \cup {JNull, JNum(1), JBool(TRUE), JStr("done"),
                               JList(<<>>), JList(<<JObj(<<>>)>>)}
  IN  {[kind |-> "raises"], [kind |-> "no_text"]}
        \cup [kind : {"text"}, fence : {"none", "fence", "fence_json"},
              body : {[json |-> FALSE]} \cup {[json |-> TRUE, value |-> v] : v \in values}]

\* ValidationResult, lines 35-52
ValidationResult(success, reason, confidence, error_type) ==
  [success |-> success, reason |-> reason, confidence |-> confidence,
   error_type |-> error_type]

\* _parse_validation_response, lines 148-167: _clean_json_response takes the
\* fence off, json.loads reads the rest, result.get needs a dict, and only
\* json.JSONDecodeError is caught
_parse_validation_response(text) ==
  IF ~text.body.json
  THEN Returned(ValidationResult(JBool(FALSE), JStr("Validation parsing error"),
                                 JNum(0), JStr("unexpected")))
  ELSE LET result == text.body.value
       IN  IF result.type # "object" THEN Raised("AttributeError")
           ELSE Returned(ValidationResult(Get(result, "success", JBool(FALSE)),
                                          Get(result, "reason", JStr("Unknown")),
                                          Get(result, "confidence", JNum(5)),
                                          Get(result, "error_type", JNull)))

\* validate, lines 120-146: the model call is not guarded, and response.text
\* may be None
validate(response_) ==
  CASE response_.kind = "raises"  -> Raised("model call")
    [] response_.kind = "no_text" -> Raised("AttributeError")
    [] response_.kind = "text"    -> _parse_validation_response(response_)

\* validate_step(screenshot, expected_state), utils/__init__.py lines 102-113
ValidateStep ==
  /\ returned.tag = "pending"
  /\ returned' = validate(model_response)
  /\ UNCHANGED <<model_response, policy_vars, stop_vars, run_vars, app_vars>>

ValidatorInit ==
  /\ scope = DefaultScope
  /\ action_count = 0
  /\ token_count = 0
  /\ elapsed = 0
  /\ violations = <<>>
  /\ record_calls = 0
  /\ emergency_stop = FALSE
  /\ stop_calls = <<>>
  /\ NoRun
  /\ automation_status = [state |-> "idle", waiting_for_user |-> FALSE]
  /\ chat_to_workflow = <<>>
  /\ workflow_to_chat = <<>>
  /\ handler = [r \in ReqIds |-> "new"]
  /\ response = [r \in ReqIds |-> "none"]
  /\ worker = [r \in ReqIds |-> [pc |-> "none", kind |-> "none", asks |-> 0, ask_id |-> 0]]
  /\ ask_log = <<>>
  /\ model_response \in ValidatorResponses
  /\ returned = [tag |-> "pending"]

SpecValidator == ValidatorInit /\ [][ValidateStep]_vars

(***************************************************************************)
(* Pointer operations (utils/actions.py, utils/helpers.py): the model's     *)
(* click_at call and the pixel the mouse is clicked at.  The coordinates    *)
(* drawn are ones for which the double x / 1000 * width has the integer     *)
(* part of the exact quotient.                                              *)
(***************************************************************************)
\* config.py: the viewport, when the environment sets neither dimension
SCREEN_WIDTH == 1440
SCREEN_HEIGHT == 900

\* denormalize_x, helpers.py lines 13-28: int(x / 1000 * width)
denormalize_x(x) == (x * SCREEN_WIDTH) \div 1000

\* denormalize_y, helpers.py lines 31-46: int(y / 1000 * height)
denormalize_y(y) == (y * SCREEN_HEIGHT) \div 1000

\* _execute_action_internal, lines 145-150: click_at clicks the denormalised
\* point and returns it
ClickAt ==
  /\ returned.tag = "pending"
  /\ model_response.kind = "click_at"
  /\ returned' = Returned([success |-> TRUE,
                           x |-> denormalize_x(model_response.x),
                           y |-> denormalize_y(model_response.y)])
  /\ UNCHANGED <<model_response, policy_vars, stop_vars, run_vars, app_vars>>

\* a click_at call of the model with its x and y arguments
PointerInit ==
  /\ scope = DefaultScope
  /\ action_count = 0
  /\ token_count = 0
  /\ elapsed = 0
  /\ violations = <<>>
  /\ record_calls = 0
  /\ emergency_stop = FALSE
  /\ stop_calls = <<>>
  /\ NoRun
  /\ automation_status = [state |-> "idle", waiting_for_user |-> FALSE]
  /\ chat_to_workflow = <<>>
  /\ workflow_to_chat = <<>>
  /\ handler = [r \in ReqIds |-> "new"]
  /\ response = [r \in ReqIds |-> "none"]
  /\ worker = [r \in ReqIds |-> [pc |-> "none", kind |-> "none", asks |-> 0, ask_id |-> 0]]
  /\ ask_log = <<>>
  /\ model_response \in [kind : {"click_at"},
                          x : {0, 1, 250, 500, 999, 1000, 1001, 1200, 1440},
                          y : {0, 1, 250, 500, 999, 1000, 1001, 1200, 1440}]
  /\ returned = [tag |-> "pending"]

SpecPointer == PointerInit /\ [][ClickAt]_vars

(***************************************************************************)
(* Claims about the safety policy (checked under SpecPolicy).              *)
(***************************************************************************)
\* the blocked-domain patterns each URL matches, case-insensitively
BlockedDomainMatches ==
  [u \in UrlIds |->
     {i \in 1..Len(BLOCKED_DOMAINS) : _match_pattern(Lower(UrlText(u)), BLOCKED_DOMAINS[i])}]

\* the blocked keywords each action description contains, case-insensitively
BlockedKeywordMatches ==
  [a \in ActionIds |->
     {i \in 1..Len(BLOCKED_KEYWORDS) : Contains(Lower(ActionDesc(a)), BLOCKED_KEYWORDS[i])}]

\* the allow-list is non-empty and the (non-empty) URL matches none of its entries
OutOfScope(u) ==
  /\ UrlText(u) # <<>>
  /\ scope.allowed_domains # <<>>
  /\ ~\E i \in 1..Len(scope.allowed_domains) :
        Contains(Lower(UrlText(u)), scope.allowed_domains[i])

\* neither a blocked domain or URL pattern, nor a blocked keyword, nor the scope rule
Unblocked(a, u) ==
  /\ ~DomainVerdict[u].blocked
  /\ BlockedKeywordMatches[a] = {}
  /\ ~OutOfScope(u)

\* C2: for every URL that matches a configured blocked-domain pattern, a
\* check_safety call made in any reachable state returns allowed = false
\* with the blocked-domain reason naming a pattern the URL matches, and the
\* violation list after the call is the list before it plus exactly one entry.
C2_BlockedDomainDenied ==
  \A a \in PolicyActionIds, u \in PolicyUrlIds :
    BlockedDomainMatches[u] # {} =>
      LET r == check_safety(a, u)
          after == ViolationsAfterCheck(a, u)
      IN  /\ ~r.allowed
          /\ r.reason[1] = "Domain matches blocked pattern"
          /\ \E i \in BlockedDomainMatches[u] : r.reason[2] = BLOCKED_DOMAINS[i]
          /\ Len(after) = Len(violations) + 1
          /\ SubSeq(after, 1, Len(violations)) = violations
          /\ after[Len(after)].url = u

\* C2 witness: a check of a URL on a blocked domain has been made and logged
C2_Witness ==
  \E i \in 1..Len(violations) :
    /\ BlockedDomainMatches[violations[i].url] # {}
    /\ violations[i].violation_type = "blocked_domain"
    /\ violations[i].url = "u_paypal"

\* C3: for every action description that contains a blocked keyword,
\* check_safety returns allowed = false for every URL (empty, unblocked, in
\* or out of scope) and in every reachable state of the counters.
C3_BlockedKeywordDenied ==
  \A a \in PolicyActionIds, u \in PolicyUrlIds :
    BlockedKeywordMatches[a] # {} => ~check_safety(a, u).allowed

\* C3 witness: a keyword action was denied on the allow-listed, unblocked URL
\* while the budget was not used up
C3_Witness ==
  /\ action_count < scope.max_actions
  /\ scope.allowed_domains # <<>>
  /\ \E i \in 1..Len(violations) :
       /\ violations[i].violation_type = "blocked_keyword"
       /\ violations[i].action = "a_type_card"
       /\ violations[i].url = "u_google"

\* C4 as stated: after exactly max_actions calls of record_action the check
\* of an unblocked action and URL is denied with the action-count reason,
\* and with fewer calls the same check is allowed.
C4_AsStated ==
  \A a \in PolicyActionIds, u \in PolicyUrlIds :
    Unblocked(a, u) =>
      /\ record_calls = scope.max_actions =>
            /\ ~check_safety(a, u).allowed
            /\ check_safety(a, u).reason[1] = "Max actions exceeded"
      /\ record_calls < scope.max_actions => check_safety(a, u).allowed

\* C4 (amended): after exactly max_actions calls of record_action the check
\* of an unblocked action and URL is denied with the action-count reason;
\* with fewer calls the same check is allowed provided the token count is
\* below max_tokens and the session is younger than timeout_minutes.
C4_ActionBudget ==
  \A a \in PolicyActionIds, u \in PolicyUrlIds :
    Unblocked(a, u) =>
      /\ record_calls = scope.max_actions =>
            /\ ~check_safety(a, u).allowed
            /\ check_safety(a, u).reason[1] = "Max actions exceeded"
            /\ check_safety(a, u).reason[2] = <<scope.max_actions, scope.max_actions>>
      /\ (record_calls < scope.max_actions
            /\ token_count < scope.max_tokens
            /\ elapsed < scope.timeout_minutes) => check_safety(a, u).allowed

\* C4 witness: exactly max_actions (more than one) calls were recorded and
\* the check of an unblocked action and URL was then denied for the count
C4_Witness ==
  /\ record_calls = scope.max_actions
  /\ scope.max_actions > 1
  /\ \E i \in 1..Len(violations) :
       /\ Unblocked(violations[i].action, violations[i].url)
       /\ violations[i].violation_type = "limit_exceeded"
       /\ violations[i].details[1] = "Max actions exceeded"

\* the rules in the order check_safety states, and whether each one alone
\* denies the call
RuleOrder == <<"blocked_domain", "blocked_keyword", "scope_exceeded", "limit_exceeded">>

RuleDenies(rule, a, u) ==
  CASE rule = "blocked_domain"  -> DomainVerdict[u].blocked
    [] rule = "blocked_keyword" -> KeywordVerdict[a].blocked
    [] rule = "scope_exceeded"  -> OutOfScope(u)
    [] rule = "limit_exceeded"  -> ~_check_limits.within

RuleReason(rule, a, u) ==
  CASE rule = "blocked_domain"  -> DomainVerdict[u].reason
    [] rule = "blocked_keyword" -> KeywordVerdict[a].reason
    [] rule = "scope_exceeded"  -> ScopeVerdict[scope.allowed_domains][u].reason
    [] rule = "limit_exceeded"  -> _check_limits.reason

\* C5: the rules are tried in the order domain, keyword, scope, budget and
\* the first that denies wins: the returned reason and the one violation
\* logged are those of the earliest denying rule; when no rule denies the
\* call is allowed and nothing is logged.
C5_FirstMatchWins ==
  \A a \in PolicyActionIds, u \in PolicyUrlIds :
    LET r == check_safety(a, u)
        after == ViolationsAfterCheck(a, u)
        denying == {i \in 1..4 : RuleDenies(RuleOrder[i], a, u)}
    IN  IF denying = {}
        THEN r.allowed /\ after = violations
        ELSE LET first == CHOOSE i \in denying : \A j \in denying : i <= j
             IN  /\ ~r.allowed
                 /\ r.violation_type = RuleOrder[first]
                 /\ r.reason = RuleReason(RuleOrder[first], a, u)
                 /\ Len(after) = Len(violations) + 1
                 /\ after[Len(after)].violation_type = RuleOrder[first]
                 /\ after[Len(after)].details = r.reason

\* C5 witness: a call that the domain rule, the keyword rule and the budget
\* rule would each deny was made, and one blocked_domain violation was logged
C5_Witness ==
  /\ Len(violations) = 1
  /\ violations[1].violation_type = "blocked_domain"
  /\ violations[1].action = "a_nav_checkout"
  /\ KeywordVerdict[violations[1].action].blocked
  /\ ~_check_limits.within

(***************************************************************************)
(* Claims about the emergency-stop flag (checked under SpecStop).          *)
(***************************************************************************)
\* the last trigger or reset call before call i, 0 when there is none
LastWriteBefore(i) ==
  LET W == {j \in 1..(i - 1) : stop_calls[j].op # "is_stopped"}
  IN  IF W = {} THEN 0 ELSE CHOOSE j \in W : \A k \in W : k <= j

\* C7: whatever the flag was before and whichever thread makes each call,
\* is_emergency_stopped returns true after trigger_emergency_stop (called
\* once or several times in succession) and false after
\* reset_emergency_stop; the flag itself is the value of the last such call.
C7_StopFlagIdempotentResettable ==
  /\ \A i \in 1..Len(stop_calls) :
       (stop_calls[i].op = "is_stopped" /\ LastWriteBefore(i) # 0) =>
          stop_calls[i].result = (stop_calls[LastWriteBefore(i)].op = "trigger")
  /\ LastWriteBefore(Len(stop_calls) + 1) # 0 =>
       emergency_stop = (stop_calls[LastWriteBefore(Len(stop_calls) + 1)].op = "trigger")

\* C7 witness: two triggers in succession from different threads, a read of
\* true, then a reset and a read of false
C7_Witness ==
  /\ Len(stop_calls) = 5
  /\ stop_calls[1].op = "trigger" /\ stop_calls[1].thread = "foreground"
  /\ stop_calls[2].op = "trigger" /\ stop_calls[2].thread = "background"
  /\ stop_calls[3].op = "is_stopped" /\ stop_calls[3].result = TRUE
  /\ stop_calls[4].op = "reset"
  /\ stop_calls[5].op = "is_stopped" /\ stop_calls[5].result = FALSE

(***************************************************************************)
(* Claims about a run (checked under Spec and SpecFlight).                 *)
(***************************************************************************)
\* C1: in every run, general or flight booking, no action returned by the
\* model is performed on the browser unless check_safety was called for it
\* first.
C1_EveryActionChecked == unchecked_ops = {}

\* C6: over any run record_action is called at most once per action that
\* check_safety allowed: neither the number of record_action calls nor
\* action_count exceeds the number of allowed actions dispatched so far.
C6_NoDoubleCount ==
  /\ record_calls <= allowed_dispatched
  /\ action_count <= allowed_dispatched

\* C8: the turn loop of a step makes at most STEP_TURNS model calls, and a
\* step whose loop used up all its turns, the model returning actions in
\* every one, is reported as not completed.
C8_TurnBoundReportsNotCompleted ==
  /\ model_calls <= STEP_TURNS
  /\ (pc = "step_check" /\ loop_exit = "exhausted" /\ step_log # <<>>)
       => step_log[Len(step_log)] # "completed"

\* C9: in the general run the stop flag is read at the start of every step
\* and of every turn, and while it is set no step and no turn gets past
\* that read: no further step is started and no further model turn is
\* begun (a turn that had passed the read before the flag was set is the
\* one in flight, and it completes).
C9_StopAtBoundaries ==
  [][(workflow = "general" /\ emergency_stop) =>
        /\ ~(pc = "step_check" /\ pc' = "step_begin")
        /\ ~(pc = "turn_check" /\ pc' = "model_call")]_vars

\* C9 witness: the flag was set during a step; its turn loop was left at
\* the next turn boundary and the step loop at the next step boundary, with
\* steps of the plan not started
C9_Witness ==
  /\ workflow = "general"
  /\ pc = "summary"
  /\ emergency_stop
  /\ loop_exit = "stopped"
  /\ step <= plan_len

(***************************************************************************)
(* Claims about the web server (checked under SpecApp).                    *)
(***************************************************************************)
\* the worker threads that have been started and have not ended
ActiveWorkers == {r \in ReqIds : worker[r].pc \notin {"none", "ended"}}

\* C10: at most one automation worker (a started worker thread that has not
\* ended) is active at a time, whatever the interleaving of concurrent start
\* requests, a request that arrives between the start of a worker thread and
\* that worker's setting of the status to "running" included.
C10_AtMostOneWorker == Cardinality(ActiveWorkers) <= 1

\* C11: when an answer is submitted while the question of a call of ask is
\* out (the status says waiting for the user, the question is published), the
\* answer goes to the workflow (not to the chat agent) and what the call
\* returns is exactly a submitted answer, not another text.
C11_AskReturnsSubmittedAnswer ==
  \A i \in 1..Len(ask_log) :
     \A r \in ask_log[i].submitted :
        /\ handler[r] \in {"route", "clear"} \/ response[r] = "routed"
        /\ ask_log[i].result > 0 => ask_log[i].result \in ask_log[i].submitted

\* C12: when no answer reaches a call of ask before its timeout, the call
\* ends by raising (queue.Empty) instead of returning an answer: in that
\* step the worker ends and the automation status becomes "error" (the
\* record of the failure: the flight workflow keeps no per-step record), and
\* the worker goes through no later phase: it asks nothing more and stays
\* ended.
C12_AskTimeoutFailsWorkflow ==
  [][\A i \in 1..Len(ask_log) :
       /\ (ask_log[i].result = 0 /\ ask_log'[i].result = -1)
            => /\ worker'[ask_log[i].w].pc = "ended"
               /\ worker'[ask_log[i].w].asks = worker[ask_log[i].w].asks
               /\ automation_status'.state = "error"
       /\ ask_log[i].result = -1
            => /\ worker[ask_log[i].w].pc = "ended"
               /\ worker'[ask_log[i].w] = worker[ask_log[i].w]
               /\ ask_log'[i] = ask_log[i]]_vars

\* a call of ask has ended by its timeout during the first question of a
\* flight booking: the worker has ended and the status says error
C12_Witness ==
  \E i \in 1..Len(ask_log) :
     /\ ask_log[i].result = -1
     /\ worker[ask_log[i].w] = [pc |-> "ended", kind |-> "book_flight", asks |-> 0, ask_id |-> i]
     /\ automation_status.state = "error"

\* a worker is inside a call of ask that has not got its answer yet
WaitingForUser == \E w \in ReqIds : worker[w].pc \in {"ask_put", "ask_wait"}

\* C13: a submitted chat message is sent towards the answer channel
\* (chat_to_workflow) only while a worker is waiting for the user on an
\* unanswered question; otherwise it goes to the chat agent and the answer
\* channel is left as it was. This for every interleaving of the handlers
\* with the workers.
C13_RoutedOnlyWhileWaiting ==
  [][\A r \in ReqIds :
       /\ (handler[r] = "new" /\ handler'[r] = "route") => WaitingForUser
       /\ (handler[r] = "new" /\ handler'[r] = "agent") => ~WaitingForUser
       /\ (handler[r] = "agent" /\ handler'[r] # "agent")
            => chat_to_workflow' = chat_to_workflow]_vars

(***************************************************************************)
(* Claims about the exit paths of a run (checked under Spec).              *)
(***************************************************************************)
\* C14: once the browser has been launched, every exit path of a run goes
\* through the cleanup: no run has ended, normally or by an exception, with
\* its browser still open.
C14_CleanupOnEveryExit == pc \in {"returned", "raised"} => browser # "open"

\* the positions of main.run from the head of the step loop up to the call
\* of _print_summary
BeforeSummary ==
  pc \in {"step_check", "step_begin", "turn_check", "model_call", "dispatch", "respond",
          "validate", "summary"}

\* C15: a general run that has started executing steps does not end before
\* its final summary is printed, whether it ends early by the emergency
\* stop, by the user cancelling at a step confirmation or by an exception
\* during a step: no step takes it from a position before the summary to
\* its end.
C15_SummaryOnEveryEnd ==
  [][(workflow = "general" /\ BeforeSummary) => pc' \notin {"returned", "raised"}]_vars

(***************************************************************************)
(* Claims about the planner (checked under SpecPlanner).                   *)
(***************************************************************************)
\* the response is no JSON, or JSON that is not an object with a list of
\* step objects
Malformed(r) ==
  /\ r.kind = "text"
  /\ \/ ~r.body.json
     \/ r.body.value.type # "object"
     \/ /\ "steps" \in DOMAIN r.body.value.fields
        /\ LET sv == r.body.value.fields["steps"]
           IN  \/ sv.type # "list"
               \/ \E i \in 1..Len(sv.items) : sv.items[i].type # "object"

\* C16: planning never aborts the run: when the model call of the planner
\* raises, or its response is malformed, generate_plan raises nothing and
\* returns the single-step fallback plan, whose goal is the original goal
\* text.
C16_PlanningNeverAborts ==
  (returned.tag \notin {"pending", "none"}
     /\ (model_response.kind = "raises" \/ Malformed(model_response)))
    => returned = Returned(_fallback_plan(GOAL))

\* the response is a text holding an object with a goal, success criteria
\* and a list of step objects that have every field and are numbered 1..n
WellFormed(r) ==
  /\ r.kind = "text"
  /\ r.body.json
  /\ r.body.value.type = "object"
  /\ DOMAIN r.body.value.fields = {"goal", "steps", "success_criteria"}
  /\ LET sv == r.body.value.fields["steps"]
     IN  /\ sv.type = "list"
         /\ \A i \in 1..Len(sv.items) :
               /\ sv.items[i].type = "object"
               /\ DOMAIN sv.items[i].fields = StepKeys
               /\ sv.items[i].fields["step_num"] = JNum(i)

\* C17: the plan built from a well-formed response with steps numbered 1..n
\* has the same n steps in the same order, each field of each step (number,
\* action, description, target, value, expected result) being the
\* response's, and the goal and the success criteria of the response.
C17_PlanRoundTrip ==
  (returned.tag \notin {"pending", "none"} /\ WellFormed(model_response))
    => /\ returned.tag = "return"
       /\ LET data == model_response.body.value.fields
              built == returned.value
          IN  /\ built.goal = data["goal"]
              /\ built.success_criteria = data["success_criteria"]
              /\ Len(built.steps) = Len(data["steps"].items)
              /\ \A i \in 1..Len(built.steps) :
                    \A k \in StepKeys : built.steps[i][k] = data["steps"].items[i].fields[k]

\* a plan has been built from a fenced well-formed response with two steps
\* of different actions
C17_Witness ==
  /\ returned.tag = "return"
  /\ WellFormed(model_response)
  /\ model_response.fence = "fence_json"
  /\ Len(returned.value.steps) = 2
  /\ returned.value.steps[1].action = JStr("navigate")
  /\ returned.value.steps[2].action = JStr("click")

\* C18: for a model answer that is not JSON, or is JSON but not an object,
\* validate returns the fixed failure result (success false, confidence 0,
\* error type "unexpected") and raises nothing.
C18_UnparsableAnswerFails ==
  (/\ returned.tag \notin {"pending", "none"}
   /\ model_response.kind = "text"
   /\ (~model_response.body.json \/ model_response.body.value.type # "object"))
    => /\ returned.tag = "return"
       /\ returned.value.success = JBool(FALSE)
       /\ returned.value.confidence = JNum(0)
       /\ returned.value.error_type = JStr("unexpected")

\* C19: the dispatcher never raises into the turn loop.  A step taken while
\* calls are pending either leaves them alone, or ends the run without an
\* exception (the interrupt), or takes the first call off and appends its
\* result: a failure that names the call when the name is unknown (the
\* unknown-function result, or the blocked result of a denied call), the
\* error result when the browser raised; the calls after it stay pending.
C19_DispatcherNeverRaises ==
  [][(workflow = "general" /\ pc = "dispatch") =>
       /\ pc' # "raised"
       /\ pending' # pending =>
            \/ pc' = "returned"
            \/ /\ pc' \in {"dispatch", "respond"}
               /\ pending' = Tail(pending)
               /\ Len(results') = Len(results) + 1
               /\ SubSeq(results', 1, Len(results)) = results
               /\ results'[Len(results')].name = Head(pending)
               /\ ~KnownAction(Head(pending))
                    => results'[Len(results')].outcome \in {"unknown", "blocked"}]_vars

\* C20: when the human cancels at the plan preview the run ends there with
\* no browser launched, no model turn issued and no action dispatched, and
\* nothing of this changes once the run has ended.
C20_CancelAtPreviewDoesNothing ==
  [][/\ (workflow = "general" /\ pc = "confirm" /\ pc' = "returned")
          => /\ browser' = "none"
             /\ model_calls' = 0
             /\ allowed_dispatched' = 0
             /\ unchecked_ops' = {}
             /\ pending' = <<>> /\ results' = <<>>
     /\ (workflow = "general" /\ pc = "returned")
          => /\ pc' = "returned"
             /\ UNCHANGED <<browser, model_calls, allowed_dispatched, unchecked_ops,
                            pending, results>>]_vars

\* the run has ended at the plan preview, a plan of two steps not started
C20_Witness ==
  /\ workflow = "general"
  /\ pc = "returned"
  /\ browser = "none"
  /\ plan_len = 2
  /\ step = 0
  /\ model_calls = 0
  /\ allowed_dispatched = 0

(***************************************************************************)
(* More claims about a run (checked under Spec).                           *)
(***************************************************************************)
\* the first pending call is one check_safety denies
HeadDenied ==
  /\ pc = "dispatch"
  /\ pending # <<>>
  /\ _safety_policy # "None"
  /\ ~check_safety(Head(pending), CheckedUrl(Head(pending))).allowed

\* C22: a denied action has no effect beyond the denial: the step that
\* takes it off the pending calls performs nothing on the browser, calls
\* record_action not at all (action_count and token_count stay), raises
\* nothing, and appends the blocked result with the reason of the policy.
C22_DeniedActionHasNoEffect ==
  [][(HeadDenied /\ pending' = Tail(pending)) =>
       /\ pc' \in {"dispatch", "respond"}
       /\ UNCHANGED <<action_count, token_count, record_calls, allowed_dispatched>>
       /\ UNCHANGED <<browser, page_url, page_closed, unchecked_ops>>
       /\ Len(results') = Len(results) + 1
       /\ SubSeq(results', 1, Len(results)) = results
       /\ results'[Len(results')].name = Head(pending)
       /\ results'[Len(results')].outcome = "blocked"
       /\ results'[Len(results')].reason =
            check_safety(Head(pending), CheckedUrl(Head(pending))).reason]_vars

\* the first call of a turn was denied for a blocked keyword: its blocked
\* result is there, the page is where it was, nothing was recorded for the
\* call, and the turn's next call is pending
C22_Witness ==
  /\ workflow = "general"
  /\ pc = "dispatch"
  /\ pending = <<"a_nav_google">>
  /\ Len(results) = 1
  /\ results[1].name = "a_type_card"
  /\ results[1].outcome = "blocked"
  /\ results[1].reason[1] = "Action contains blocked keyword"
  /\ page_url = "u_blank"
  /\ allowed_dispatched = 0
  /\ record_calls = 1

\* the names of the results the turn has so far
ResultNames(rs) == [i \in 1..Len(rs) |-> rs[i].name]

\* C24: the calls of a turn are dispatched one at a time in the order of
\* the model's reply: a dispatch takes the first pending call and appends
\* its result, so that results and pending calls together are the reply,
\* and when the dispatcher returns there is one result per call, in order.
C24_DispatchInOrder ==
  [][(workflow' = "general" /\ pc' \in {"dispatch", "respond"}) =>
       /\ ResultNames(results') \o pending' \in FunctionCallBatches
       /\ pc' = "respond" => pending' = <<>>
       /\ (pc = "dispatch" /\ pending' # pending) =>
             /\ pending' = Tail(pending)
             /\ Len(results') = Len(results) + 1
             /\ SubSeq(results', 1, Len(results)) = results
             /\ results'[Len(results')].name = Head(pending)]_vars

\* the dispatcher has returned from a reply of two calls with the two
\* results in the order of the reply
C24_Witness ==
  /\ workflow = "general"
  /\ pc = "respond"
  /\ pending = <<>>
  /\ ResultNames(results) = <<"a_type_card", "a_nav_google">>
  /\ results[2].outcome = "ok"

C26_StopAbortsEveryLoop ==
  [][emergency_stop =>
       /\ ~(pc = "turn_check" /\ pc' = "model_call")
       /\ pc = "f_turn" =>
            /\ pc' # "dispatch"
            /\ ~(pc' # "f_turn" /\ loop_exit' = "no_calls")]_vars

\* C27: a model call that raises ends the turn loop without the exception
\* leaving it (the run goes on to the validation), and the step in which
\* the call failed is not counted as completed.
C27_ApiErrorFailsStep ==
  [][/\ (workflow = "general" /\ pc = "model_call" /\ loop_exit' = "api_error")
          => pc' = "validate"
     /\ (workflow = "general" /\ pc = "validate" /\ loop_exit = "api_error"
           /\ Len(step_log') = Len(step_log) + 1)
          => step_log'[Len(step_log')] # "completed"]_vars

\* the positions of main.run inside its step loop
InStepLoop ==
  /\ workflow = "general"
  /\ pc \in {"step_check", "step_begin", "turn_check", "model_call", "dispatch",
             "respond", "validate"}

C29_DeclinedStepSkipped ==
  [][/\ (workflow = "general" /\ pc = "step_begin" /\ step' = step + 1) =>
          /\ step_mode
          /\ pc' = "step_check"
          /\ step_log' = Append(step_log, "skipped")
          /\ completed' = completed /\ failed' = failed
          /\ UNCHANGED <<model_calls, allowed_dispatched, unchecked_ops, pending, results>>
          /\ UNCHANGED <<action_count, token_count, record_calls, browser_vars>>
     /\ (workflow = "general" /\ pc = "step_check" /\ pc' = "summary")
          => (step > plan_len \/ emergency_stop)]_vars

\* a declined first step, then the second step run and completed
C29_Witness ==
  /\ workflow = "general" /\ pc = "step_check" /\ step_mode /\ step = 3
  /\ step_log = <<"skipped", "completed">>
  /\ completed = 1 /\ failed = 0

\* C30: a step whose turn loop was run and was not cut off by the
\* emergency stop gets exactly one of the two counters incremented when the
\* run moves on to the next step, completed or failed, also when the page
\* was closed during the step.
C30_ExecutedStepCounted ==
  [][(workflow = "general" /\ pc = "validate" /\ loop_exit # "stopped"
        /\ pc' = "step_check") =>
       /\ step' = step + 1
       /\ \/ completed' = completed + 1 /\ failed' = failed
          \/ completed' = completed /\ failed' = failed + 1]_vars

(***************************************************************************)
(* The scope rule of the safety policy (checked under SpecPolicy).         *)
(***************************************************************************)
\* C23: with a non-empty allow-list, a check made with a URL that matches no
\* entry of the list, the empty URL included, is denied, so every allowed
\* action was checked against a URL matching an entry; with an empty
\* allow-list the scope rule denies nothing.
C23_AllowListScope ==
  \A a \in PolicyActionIds, u \in PolicyUrlIds :
    /\ (/\ scope.allowed_domains # <<>>
        /\ ~\E i \in 1..Len(scope.allowed_domains) :
              Contains(Lower(UrlText(u)), scope.allowed_domains[i]))
          => ~check_safety(a, u).allowed
    /\ scope.allowed_domains = <<>>
          => check_safety(a, u).violation_type # "scope_exceeded"

(***************************************************************************)
(* Claims about pointer operations (checked under SpecPointer).            *)
(***************************************************************************)
\* C21: a coordinate c with 0 <= c <= 1000 is clicked at the pixel
\* floor(c * dimension / 1000) of the configured viewport, and a coordinate
\* above 1000 is taken as a pixel and used unchanged.
C21_Denormalisation ==
  returned.tag = "return" =>
    /\ returned.value.x = IF model_response.x <= 1000
                          THEN (model_response.x * SCREEN_WIDTH) \div 1000
                          ELSE model_response.x
    /\ returned.value.y = IF model_response.y <= 1000
                          THEN (model_response.y * SCREEN_HEIGHT) \div 1000
                          ELSE model_response.y

(***************************************************************************)
(* Claims about failures inside a step (checked under Spec).               *)
(***************************************************************************)
\* the positions of main.run inside the body of a step
InStepBody ==
  /\ workflow = "general"
  /\ pc \in {"step_begin", "turn_check", "model_call", "dispatch", "respond", "validate"}

\* C31: whatever happens inside a step, the first screenshot, the turn
\* loop, the capture of the function responses, the validation, the step is
\* left (other than by the user's interrupt) towards the head of the step
\* loop with one more entry in the step log: an exception does not leave
\* the step loop, so the remaining steps are still run.
C31_StepExceptionRecorded ==
  [][(InStepBody /\ ~InStepBody' /\ pc' # "returned") =>
       /\ pc' = "step_check"
       /\ Len(step_log') = Len(step_log) + 1]_vars

(***************************************************************************)
(* The step numbers of a plan (checked under SpecPlanner).                 *)
(***************************************************************************)
\* C32: in every plan the planner returns, the sequence numbers of the
\* steps are numbers from 1 on and no two steps have the same one, whatever
\* step_num values the response carries.
C32_StepNumbersUnique ==
  returned.tag = "return" =>
    LET steps == returned.value.steps
    IN  /\ \A i \in 1..Len(steps) :
             steps[i].step_num.type = "number" /\ steps[i].step_num.n >= 1
        /\ \A i, j \in 1..Len(steps) :
             i # j => steps[i].step_num # steps[j].step_num

(***************************************************************************)
(* The model's safety decision and the policy (checked under Spec).        *)
(***************************************************************************)
\* C33: a call whose arguments carry a safety decision is acknowledged on
\* the spot (the dispatch is one step that goes on to the next call or to
\* the responses, and the result carries the acknowledgement), and the
\* policy is still asked: when it denies the call the result is the blocked
\* one with the policy's reason, the violation is logged, and the browser
\* is left as it was.
C33_DecisionDoesNotBypassPolicy ==
  [][(pc = "dispatch" /\ pending' = Tail(pending)
        /\ Len(results') = Len(results) + 1
        /\ results'[Len(results')].has_safety_decision) =>
       /\ pc' \in {"dispatch", "respond"}
       /\ results'[Len(results')].name = Head(pending)
       /\ HeadDenied =>
            /\ results'[Len(results')].outcome = "blocked"
            /\ results'[Len(results')].reason =
                 check_safety(Head(pending), CheckedUrl(Head(pending))).reason
            /\ violations' = ViolationsAfterCheck(Head(pending), CheckedUrl(Head(pending)))
            /\ UNCHANGED <<browser_vars, unchecked_ops, allowed_dispatched>>
       /\ (_safety_policy # "None" /\ ~HeadDenied) =>
            /\ results'[Len(results')].outcome # "blocked"
            /\ allowed_dispatched' = allowed_dispatched + 1]_vars

\* a card-number typing call with a safety decision was acknowledged and
\* denied by the policy, with the page where it was
C33_Witness ==
  /\ workflow = "general" /\ pc = "dispatch" /\ pending = <<"a_nav_google">>
  /\ Len(results) = 1
  /\ results[1].name = "a_type_card"
  /\ results[1].has_safety_decision
  /\ results[1].outcome = "blocked"
  /\ page_url = "u_blank"
  /\ Len(violations) = 1

(***************************************************************************)
(* The conversation sent to the model (checked under Spec).                *)
(***************************************************************************)
\* C38: before every model call the conversation ends with a turn of the
\* user, and a model turn with function calls in it is followed by one user
\* turn that holds one function response per call, in the order of the
\* calls, also when the page was closed during the turn.
C38_ContextWellFormed ==
  (workflow = "general" /\ pc = "model_call") =>
    /\ contents # <<>>
    /\ contents[Len(contents)].role = "user"
    /\ contents[1].role = "model" =>
         /\ Len(contents) = 2
         /\ contents[2].parts = contents[1].parts

(***************************************************************************)
(* The status of an automation (checked under SpecApp).                    *)
(***************************************************************************)
\* C34: an automation leaves the running state: once its worker is through
\* (it went through its steps, or it failed) and no other worker is active,
\* the status is completed or error, so that a start request is accepted.
C34_AutomationLeavesRunning ==
  \A r \in ReqIds :
    (worker[r].pc \in {"hang", "ended"} /\ ActiveWorkers \subseteq {r})
      => automation_status.state \in {"completed", "error"}

\* C35: waiting_for_user is true only while a worker is inside a call of
\* ask that has not got its answer: not after ask returned or gave up at
\* its timeout, and not after the run ended.
C35_WaitingOnlyWhileAsking == automation_status.waiting_for_user => WaitingForUser

\* C36: a worker blocked in ask with no answer on its way (none in the
\* answer channel) has waiting_for_user true, so that the next message is
\* routed to it, whatever the interleaving of the handlers with the worker.
C36_BlockedAskIsWaiting ==
  ((\E w \in ReqIds : worker[w].pc = "ask_wait") /\ chat_to_workflow = <<>>)
    => automation_status.waiting_for_user

\* C37: the answer channel is empty whenever a call of ask begins, so that
\* what the call returns was submitted after its question was published;
\* stated for a worker that is the only one (no second automation beside it).
C37_AnswerChannelEmptyAtAsk ==
  [][\A w \in ReqIds :
       (worker[w].pc = "ask" /\ worker'[w].pc = "ask_put" /\ ActiveWorkers = {w})
         => chat_to_workflow = <<>>]_vars

(***************************************************************************)
(* The budget of actions in a run (checked under SpecBudget).              *)
(***************************************************************************)
\* C39: with a policy installed, the actions the dispatcher went on with
\* after the policy's verdict (the only ones performed on the browser)
\* never number more than scope.max_actions, whatever the model's turns and
\* batches.
C39_ActionsWithinBudget ==
  _safety_policy = "installed" =>
    /\ allowed_dispatched <= scope.max_actions
    /\ unchecked_ops = {}

\* the budget was used up by dispatched actions, and the next call of the
\* model was denied for it
C39_Witness ==
  /\ workflow = "general" /\ pc = "respond"
  /\ allowed_dispatched = scope.max_actions
  /\ Len(results) = 1
  /\ results[1].outcome = "blocked"
  /\ results[1].reason[1] = "Max actions exceeded"

(***************************************************************************)
(* The phases of the flight workflow (checked under SpecFlight).           *)
(***************************************************************************)
\* where execute is: 1 launch, 2 navigate, 3 fill the search form, 4 wait
\* for the results and ask the user, 5 select the flight, 6 proceed to the
\* booking, 7 hand off the payment, 8 the browser kept open; 0 before and
\* after the run
FlightRank ==
  CASE pc = "f_launch"   -> 1
    [] pc = "f_navigate" -> 2
    [] phase = "fill"    -> 3
    [] pc = "f_ask"      -> 4
    [] phase = "select"  -> 5
    [] phase = "proceed" -> 6
    [] pc = "f_handoff"  -> 7
    [] pc = "hang"       -> 8
    [] OTHER             -> 0

\* C40: with the chat callback the phases of the flight workflow run in
\* their fixed order, one after the other and none twice or skipped; the
\* model's calls are dispatched only inside the three turn loops, and those
\* of the selection and of the booking only after the step in which the
\* question to the user returned with the answer.
C40_FlightPhasesInOrder ==
  [][(workflow' = "flight" /\ ask_user_fn' = "chat") =>
       /\ FlightRank' \in {FlightRank, FlightRank + 1, 0}
       /\ pc' = "dispatch" => FlightRank' \in {3, 5, 6}
       /\ (FlightRank' = 5 /\ FlightRank # 5) =>
            (pc = "f_ask" /\ pc' = "f_loop_begin" /\ ~page_closed)]_vars

\* a call of the selection loop about to be dispatched, the question answered
C40_Witness ==
  /\ workflow = "flight" /\ ask_user_fn = "chat"
  /\ pc = "dispatch" /\ phase = "select" /\ pending # <<>>
  /\ browser = "open"

=============================================================================
